---- MODULE Spec2Model ----
(***************************************************************************)
(* A model of regobslib: the APS time-series merge (aps.py, misc.py), the  *)
(* snow registration and its submission (submit.py, connection.py) and     *)
(* the observation records' wire mapping (submit.py).                      *)
(*                                                                         *)
(* Python's None is the integer None (-1) in integer-valued fields; every  *)
(* other integer of the model is >= 0.  A call that may raise returns an   *)
(* outcome [err, val]: err = "none" and the value, or the exception and a  *)
(* placeholder value.                                                      *)
(***************************************************************************)
EXTENDS Integers, Sequences, FiniteSets, TLC

VARIABLES
    da,      \* aps.Day: the day merged so far (`data` of Connection.get_aps)
    db,      \* aps.Day: the day deserialized from the latest response
    dres,    \* the latest call of Day.assimilate: its operands before and after, its outcome
    ax,      \* aps.Aps: the receiver of Aps.assimilate
    ay,      \* aps.Aps: the argument of Aps.assimilate
    ares,    \* the latest call of Aps.assimilate: its operands before it, and its outcome
    reg,     \* submit.SnowRegistration: any_obs, the observations and the images
    last,    \* the latest call of a SnowRegistration method or of authenticate
    conn,    \* connection.Connection: authenticated, and expires as seconds from now
    sub,     \* the call of Connection.submit: where it is, what it has done, its outcome
    rec,     \* the latest call of an observation constructor: its arguments and outcome
    wire,    \* the serialization of that observation and what deserializes from it
    snow,    \* submit.SnowRegistration with the records it holds
    sent,    \* SnowRegistration.serialize on it, and deserialize of what it returned
    fn,      \* the latest call on a value (Elevation, Expositions, an enumerated field)
    box,     \* aps.Timeline: a container that is set into, sliced, selected from, merged
    took,    \* the latest operation on that container: the container before it, its outcome
    result   \* connection.Result and its ResultIter: the slice, the cache, what was yielded

dayVars == <<da, db, dres>>

apsVars == <<ax, ay, ares>>

regVars == <<reg, last, conn, sub>>

recVars == <<rec, wire>>

snowVars == <<snow, sent>>

fnVars == <<fn>>
boxVars == <<box, took>>
resVars == <<result>>
vars == <<dayVars, apsVars, regVars, recVars, snowVars, fnVars, boxVars, resVars>>

----------------------------------------------------------------------------
(* Bounds of the model.                                                    *)

\* how many of get_aps's data types other than wind the modelled server is asked for
NumTypes == 2
\* how many elevation-band layouts the modelled server may answer with
NumGrids == 5
\* how many treeline answers (AltitudeDivider) the modelled server may give
NumTreelines == 3
\* how many dates the modelled server may answer for
NumDates == 2
\* how many observations other than avalanche problems, and images, a registration is given
MaxObs == 2
\* how many times in a row the modelled submit re-authenticates before the
\* interpreter's recursion limit ends it
MaxReauth == 2
\* how many of a constructor's parameters a modelled call passes
MaxArgs == 2
\* how many URLs the modelled calls add to an Incident or a Note
MaxUrls == 1

\* the largest wire code tried for an enumerated field
MaxCode == 99

\* the highest of the elevations tried metre by metre
MaxElev == 120

\* the longest list of directions given to Expositions
MaxDirs == 3

\* the longest string given to Expositions.deserialize
MaxChars == 9

\* the largest number of taps given to CompressionTest
MaxTaps == 31

\* how many dates the container at work may hold
MaxKey == 2

----------------------------------------------------------------------------
(* Python values.                                                          *)

None == -1

\* bool(x) of an int-or-None: None and 0 are falsy
Truthy(x) == x # None /\ x # 0

Max(x, y) == IF x >= y THEN x ELSE y

Ok(v) == [err |-> "none", val |-> v]

Raise(e, v) == [err |-> e, val |-> v]

----------------------------------------------------------------------------
(* aps.py: data types, levels and days.                                    *)

\* the attribute names of WEATHER_ATTRS, in the dict's order
WEATHER_ATTRS == <<"precip", "precip_max", "temp", "wind", "snow_depth", "new_snow", "new_snow_max">>

AttrNames == {WEATHER_ATTRS[i] : i \in 1..Len(WEATHER_ATTRS)}

\* the data types of Connection.get_aps other than wind, in its order
DataTypes == <<"precip", "precip_max", "temp", "snow_depth", "new_snow", "new_snow_max">>

\* the region of the modelled requests and its REGION_ROOF entry
TROMSO == 3011

SOR_TROMS == 3012

REGION_ROOF(region) == 1000

\* Level(): every weather attribute None, floor/roof/index the class defaults
NewLevel == [floor |-> None, roof |-> None, index |-> None,
             data |-> [a \in AttrNames |-> None]]

\* Day(): no levels, date and region the class defaults
NewDay == [date |-> None, region |-> None, levels |-> <<>>]

\* Level.__bool__: some weather attribute is set (a Data object is always truthy)
LevelBool(level) == \E a \in AttrNames : level.data[a] # None

\* Day.__bool__
DayBool(day) == \E i \in 1..Len(day.levels) : LevelBool(day.levels[i])

\* Data.deserialize: the percentiles of one band; the model keeps the median
DataDeserialize(json) == json.Median

\* Level.deserialize
LevelDeserialize(json, data_type) ==
    [floor |-> json.ElevationBottom,
     roof  |-> IF Truthy(json.ElevationTop) THEN json.ElevationTop ELSE None,
     index |-> json.ElevationBand,
     data  |-> [a \in AttrNames |-> IF a = data_type THEN DataDeserialize(json) ELSE None]]

\* Level.deserialize_wind
LevelDeserializeWind(json, floor, roof) ==
    [floor |-> floor,
     roof  |-> roof,
     index |-> IF ~Truthy(floor) THEN 1 ELSE 2,
     data  |-> [a \in AttrNames |-> IF a = "wind" THEN json ELSE None]]

\* Day.deserialize: the first region of the day, its bands in order
DayDeserialize(json, data_type) ==
    LET elevation_list == json.Regions[1].ElevationData
    IN  [date   |-> json.FormattedDate - 1,
         region |-> json.Regions[1].RegionId,
         levels |-> [i \in 1..Len(elevation_list) |->
                        LevelDeserialize(elevation_list[i], data_type)]]

\* Day.deserialize_wind
DayDeserializeWind(json, region, treeline) ==
    [date   |-> json.FormattedDate - 1,
     region |-> region,
     levels |->
        <<LevelDeserializeWind(json.DistributionBelowTreeline, 0,
                               IF Truthy(treeline) THEN treeline ELSE None)>>
        \o (IF Truthy(treeline)
            THEN <<LevelDeserializeWind(json.DistributionAboveTreeline, treeline,
                                        REGION_ROOF(region))>>
            ELSE <<>>)]

\* a max_or_not_none that is `self_ or other_` whatever the two values are
max_or_not_none_SelfFirst(self_, other_) ==
    IF Truthy(self_) THEN self_ ELSE other_

\* Level.assimilate.max_or_not_none
max_or_not_none(self_, other_) ==
    IF Truthy(self_) /\ Truthy(other_) THEN Max(self_, other_)
    ELSE IF Truthy(self_) THEN self_ ELSE other_

\* the attributes both levels hold data for
Conflicts(self, other) == {a \in AttrNames : self.data[a] # None /\ other.data[a] # None}

\* Level.assimilate
LevelAssimilate(self, other) ==
    LET level == [floor |-> max_or_not_none(self.floor, other.floor),
                  roof  |-> max_or_not_none(self.roof, other.roof),
                  index |-> max_or_not_none(self.index, other.index),
                  data  |-> [a \in AttrNames |->
                                IF (self.data[a] # None) # (other.data[a] # None)
                                THEN (IF self.data[a] # None THEN self.data[a] ELSE other.data[a])
                                ELSE None]]
    IN  IF Conflicts(self, other) # {} THEN Raise("Conflict", NewLevel) ELSE Ok(level)

\* list[i] of Python for a 0-based index that may be negative: the 1-based
\* position, or 0 when the index is out of range (IndexError)
PyIndex(i, len) ==
    IF 0 <= i /\ i < len THEN i + 1
    ELSE IF i < 0 /\ i >= 0 - len THEN len + i + 1
    ELSE 0

\* the while loop of Day.assimilate: from wind level wind_i (0-based) walk
\* backward while the wind floor lies at or above the middle of the band
RECURSIVE WindWalk(_, _, _)
WindWalk(wind_levels, wind_i, nowind_l) ==
    LET pos    == PyIndex(wind_i, Len(wind_levels))
        wind_l == wind_levels[pos]
        num    == wind_l.floor - nowind_l.floor
        den    == nowind_l.roof - nowind_l.floor
    IN  IF pos = 0 THEN Raise("IndexError", 0)
        ELSE IF wind_l.floor = None \/ nowind_l.floor = None \/ nowind_l.roof = None
             THEN Raise("TypeError", 0)
        ELSE IF den = 0 THEN Raise("ZeroDivisionError", 0)
        ELSE IF (den > 0 /\ 2 * num >= den) \/ (den < 0 /\ 2 * num <= den)
             THEN WindWalk(wind_levels, wind_i - 1, nowind_l)
        ELSE Ok(pos)

\* one round of the for loop of Day.assimilate (i is 0-based)
DayAssimilateLevel(self, other, i) ==
    LET self_i  == IF i < Len(self.levels) - 1 THEN i ELSE Len(self.levels) - 1
        other_i == IF i < Len(other.levels) - 1 THEN i ELSE Len(other.levels) - 1
        self_l  == self.levels[self_i + 1]
        other_l == other.levels[other_i + 1]
    IN  IF self_l.data["wind"] # None \/ other_l.data["wind"] # None
        THEN LET selfWind == self_l.data["wind"] # None
                 wind_i   == IF selfWind THEN self_i ELSE other_i
                 wind     == IF selfWind THEN self ELSE other
                 nowind_l == IF selfWind THEN other_l ELSE self_l
                 walk     == WindWalk(wind.levels, wind_i, nowind_l)
             IN  IF walk.err # "none" THEN Raise(walk.err, NewLevel)
                 ELSE LevelAssimilate(
                        [wind.levels[walk.val] EXCEPT !.floor = nowind_l.floor,
                                                      !.roof = nowind_l.roof],
                        nowind_l)
        ELSE LevelAssimilate(self_l, other_l)

\* the wind side of round i (0-based) of the for loop of Day.assimilate:
\* whether a level of the pair carries wind, which day is the wind day, where
\* the walk starts and ends, and the band of the other day
WindPick(self, other, i) ==
    LET self_i  == IF i < Len(self.levels) - 1 THEN i ELSE Len(self.levels) - 1
        other_i == IF i < Len(other.levels) - 1 THEN i ELSE Len(other.levels) - 1
        self_l  == self.levels[self_i + 1]
        other_l == other.levels[other_i + 1]
        selfWind == self_l.data["wind"] # None
        nowind_l == IF selfWind THEN other_l ELSE self_l
    IN  [carried  |-> self_l.data["wind"] # None \/ other_l.data["wind"] # None,
         selfWind |-> selfWind,
         wind     |-> IF selfWind THEN self ELSE other,
         wind_i   |-> IF selfWind THEN self_i ELSE other_i,
         nowind_l |-> nowind_l,
         walk     |-> WindWalk(IF selfWind THEN self.levels ELSE other.levels,
                               IF selfWind THEN self_i ELSE other_i, nowind_l)]

\* wind_l.floor = nowind_l.floor; wind_l.roof = nowind_l.roof on the wind
\* day's own level
WindLevelAfter_NoCopy(wind_l, nowind_l) ==
    [wind_l EXCEPT !.floor = nowind_l.floor, !.roof = nowind_l.roof]

\* the wind day's level after wind_l = deepcopy(wind_l) and the assignments
\* of floor and roof: they go to the copy
WindLevelAfter(wind_l, nowind_l) == wind_l

\* Day.assimilate, what it leaves of its operands: the rounds up to the
\* first that raises have assigned floor and roof after their walk
DayAssimilateLeaves(self, other) ==
    IF self.date # other.date \/ self.region # other.region
       \/ self.levels = <<>> \/ other.levels = <<>>
    THEN [self |-> self, other |-> other]
    ELSE LET n    == Max(Len(self.levels), Len(other.levels))
             bad  == {i \in 1..n : DayAssimilateLevel(self, other, i - 1).err # "none"}
             done == {i \in 0..(n - 1) : \A j \in bad : i + 1 <= j}
             hits(selfWind, p) ==
                 {i \in done : LET pick == WindPick(self, other, i)
                               IN  /\ pick.carried
                                   /\ pick.selfWind = selfWind
                                   /\ pick.walk.err = "none"
                                   /\ pick.walk.val = p}
             after(day, selfWind) ==
                 [day EXCEPT !.levels =
                     [p \in 1..Len(day.levels) |->
                         IF hits(selfWind, p) = {} THEN day.levels[p]
                         ELSE WindLevelAfter(
                                  day.levels[p],
                                  WindPick(self, other,
                                           CHOOSE i \in hits(selfWind, p) :
                                               \A j \in hits(selfWind, p) : j <= i).nowind_l)]]
         IN  [self |-> after(self, TRUE), other |-> after(other, FALSE)]

\* Day.assimilate
DayAssimilate(self, other) ==
    IF self.date # other.date \/ self.region # other.region
    THEN Raise("Incompatible", NewDay)
    ELSE IF self.levels = <<>>
    THEN Ok([date |-> self.date, region |-> self.region, levels |-> other.levels])
    ELSE IF other.levels = <<>>
    THEN Ok([date |-> self.date, region |-> self.region, levels |-> self.levels])
    ELSE LET n    == Max(Len(self.levels), Len(other.levels))
             outs == [i \in 1..n |-> DayAssimilateLevel(self, other, i - 1)]
             bad  == {i \in 1..n : outs[i].err # "none"}
         IN  IF bad # {}
             THEN Raise(outs[CHOOSE i \in bad : \A j \in bad : i <= j].err, NewDay)
             ELSE Ok([date |-> self.date, region |-> self.region,
                      levels |-> [i \in 1..n |-> outs[i].val]])

----------------------------------------------------------------------------
(* The server's answers, as far as the model enumerates them.              *)

Band(bottom, top, band) ==
    [ElevationBottom |-> bottom, ElevationTop |-> top, ElevationBand |-> band, Median |-> band]

\* the ElevationData lists a response may hold
ElevationData(g) ==
    CASE g = 1 -> <<Band(0, 500, 1), Band(500, 1000, 2)>>
      [] g = 2 -> <<Band(0, 500, 1), Band(500, 0, 2)>>
      [] g = 3 -> <<Band(0, 1000, 1)>>
      [] g = 4 -> <<Band(0, 300, 1), Band(300, 600, 2)>>
      [] g = 5 -> <<>>
      [] OTHER -> <<Band(0, 300, 1), Band(300, 600, 2), Band(600, 0, 3)>>

\* the AltitudeDivider values a wind response may hold
AltitudeDivider(t) ==
    CASE t = 1 -> 500
      [] t = 2 -> 0
      [] t = 3 -> 800
      [] OTHER -> 300

\* one day of a response for a data type other than wind
DayJson(date, region, g) ==
    [FormattedDate |-> date,
     Regions |-> <<[RegionId |-> region, ElevationData |-> ElevationData(g)]>>]

\* one day of a wind response
WindDayJson(date) ==
    [FormattedDate |-> date, DistributionBelowTreeline |-> 1, DistributionAboveTreeline |-> 2]

FetchTypes == {DataTypes[i] : i \in 1..NumTypes}

\* every day a single response deserializes to
FreshDays ==
    {DayDeserialize(DayJson(2, TROMSO, g), t) : g \in 1..NumGrids, t \in FetchTypes}
    \cup {DayDeserializeWind(WindDayJson(2), TROMSO, AltitudeDivider(t)) : t \in 1..NumTreelines}

----------------------------------------------------------------------------
(* The folding of responses into one day, as Connection.get_aps does it.   *)

NoCall ==
    [called |-> FALSE, self |-> NewDay, other |-> NewDay, out |-> Ok(NewDay),
     left |-> [self |-> NewDay, other |-> NewDay]]

InitDay ==
    /\ da = NewDay
    /\ db = NewDay
    /\ dres = NoCall

\* data = Aps.deserialize(json, data_type): the first response
FetchFirst ==
    /\ da = NewDay
    /\ \E d \in FreshDays : da' = d
    /\ UNCHANGED <<db, dres, apsVars, regVars, recVars, snowVars, fnVars, boxVars, resVars>>

\* Aps.deserialize(json, data_type) of a later response
FetchNext ==
    /\ da # NewDay
    /\ \E d \in FreshDays : db' = d
    /\ dres' = NoCall
    /\ UNCHANGED <<da, apsVars, regVars, recVars, snowVars, fnVars, boxVars, resVars>>

\* data = data.assimilate(...): an exception leaves data as it was
AssimilateDays ==
    /\ da.date # None
    /\ db.date # None
    /\ LET out == DayAssimilate(da, db)
       IN  /\ dres' = [called |-> TRUE, self |-> da, other |-> db, out |-> out,
                      left |-> DayAssimilateLeaves(da, db)]
           /\ da' = IF out.err = "none" THEN out.val ELSE da
    /\ db' = NewDay
    /\ UNCHANGED <<apsVars, regVars, recVars, snowVars, fnVars, boxVars, resVars>>

----------------------------------------------------------------------------
(* misc.Container: _elems, an OrderedDict, is the sequence of its          *)
(* [key, elem] entries in iteration order.                                 *)

\* Container.__init__
NewContainer == <<>>

Keys(elems) == {elems[i].key : i \in 1..Len(elems)}

\* Container.__contains__
Contains(elems, key) == key \in Keys(elems)

\* Container.__getitem__ for a single key
GetItem(elems, key) == elems[CHOOSE i \in 1..Len(elems) : elems[i].key = key].elem

\* Container.__setitem__: a present key keeps its place, a new key goes last
SetItem(elems, key, elem) ==
    IF Contains(elems, key)
    THEN [i \in 1..Len(elems) |->
             IF elems[i].key = key THEN [key |-> key, elem |-> elem] ELSE elems[i]]
    ELSE Append(elems, [key |-> key, elem |-> elem])

\* a _sort that leaves the entries where they are
Sort_Skipped(elems) == elems

\* Container._sort: move_to_end for every key in ascending order
Sort(elems) ==
    [i \in 1..Len(elems) |->
        elems[CHOOSE j \in 1..Len(elems) :
                 Cardinality({k \in Keys(elems) : k <= elems[j].key}) = i]]

\* Container._filter_empty: deletes the entries whose key is falsy
FilterEmpty(elems) == SelectSeq(elems, LAMBDA e : Truthy(e.key))

\* a second loop that adopts nothing
AdoptOthers_None(container, other) == container

\* Container.assimilate, its second loop: the entries of other whose key is new
RECURSIVE AdoptOthers(_, _)
AdoptOthers(container, other) ==
    IF other = <<>> THEN container
    ELSE AdoptOthers(IF Contains(container, Head(other).key) THEN container
                     ELSE SetItem(container, Head(other).key, Head(other).elem),
                     Tail(other))

\* Container.assimilate on the entries.  outs[i] is the outcome of
\* elem.assimilate(other[key]) for the i-th entry of self when other holds its
\* key, and the entry's own child otherwise; the first loop raises what the
\* first failing child raises.
ContainerAssimilate(self, other, outs) ==
    LET bad  == {i \in 1..Len(self) : outs[i].err # "none"}
        container == [i \in 1..Len(self) |-> [key |-> self[i].key, elem |-> outs[i].val]]
    IN  IF bad # {}
        THEN Raise(outs[CHOOSE i \in bad : \A j \in bad : i <= j].err, NewContainer)
        ELSE Ok(FilterEmpty(Sort(AdoptOthers(container, other))))

----------------------------------------------------------------------------
(* aps.Timeline and aps.Aps.                                               *)

\* Timeline(): no days, treeline the class default
NewTimeline == [elems |-> NewContainer, treeline |-> None]

\* Aps()
NewAps == [elems |-> NewContainer]

\* Timeline.assimilate, what it returns: a Timeline() given the merged entries
TimelineAssimilate(self, other) ==
    LET outs == [i \in 1..Len(self.elems) |->
                    IF Contains(other.elems, self.elems[i].key)
                    THEN DayAssimilate(self.elems[i].elem,
                                       GetItem(other.elems, self.elems[i].key))
                    ELSE Ok(self.elems[i].elem)]
        out  == ContainerAssimilate(self.elems, other.elems, outs)
    IN  IF out.err # "none" THEN Raise(out.err, NewTimeline)
        ELSE Ok([elems |-> out.val, treeline |-> None])

\* Timeline.assimilate, what it leaves of its receiver: self.treeline is assigned
TimelineAfterAssimilate(self, other) ==
    [self EXCEPT !.treeline = IF self.treeline # None THEN self.treeline ELSE other.treeline]

\* Container.assimilate of an Aps, what it returns
ApsAssimilate(self, other) ==
    LET outs == [i \in 1..Len(self.elems) |->
                    IF Contains(other.elems, self.elems[i].key)
                    THEN TimelineAssimilate(self.elems[i].elem,
                                            GetItem(other.elems, self.elems[i].key))
                    ELSE Ok(self.elems[i].elem)]
        out  == ContainerAssimilate(self.elems, other.elems, outs)
    IN  IF out.err # "none" THEN Raise(out.err, NewAps) ELSE Ok([elems |-> out.val])

\* Container.assimilate of an Aps, what it leaves of its receiver: the copy of
\* _elems is shallow, so the first loop calls assimilate on self's own timelines,
\* up to the first one that raises
ApsAfterAssimilate(self, other) ==
    LET shared == {i \in 1..Len(self.elems) : Contains(other.elems, self.elems[i].key)}
        bad    == {i \in shared :
                      TimelineAssimilate(self.elems[i].elem,
                                         GetItem(other.elems, self.elems[i].key)).err # "none"}
        done   == {i \in shared : \A j \in bad : i <= j}
    IN  [elems |-> [i \in 1..Len(self.elems) |->
                      IF i \in done
                      THEN [key  |-> self.elems[i].key,
                            elem |-> TimelineAfterAssimilate(
                                         self.elems[i].elem,
                                         GetItem(other.elems, self.elems[i].key))]
                      ELSE self.elems[i]]]

\* Timeline.deserialize, its loop over json["TimeLine"] from day i on
RECURSIVE TimelineDays(_, _, _, _)
TimelineDays(elems, json, data_type, i) ==
    IF i > Len(json.TimeLine) THEN elems
    ELSE LET day  == json.TimeLine[i]
             date == day.FormattedDate
         IN  TimelineDays(
                 SetItem(elems, date,
                         IF data_type = "wind"
                         THEN DayDeserializeWind(day, json.RegionId, json.AltitudeDivider)
                         ELSE DayDeserialize(day, data_type)),
                 json, data_type, i + 1)

\* Timeline.deserialize
TimelineDeserialize(json, data_type) ==
    [elems    |-> TimelineDays(NewContainer, json, data_type, 1),
     treeline |-> IF data_type = "wind" THEN json.AltitudeDivider ELSE None]

\* Timeline.get_region
GetRegion(timeline) ==
    IF timeline.elems = <<>> THEN Raise("ValueError", None)
    ELSE Ok(timeline.elems[1].elem.region)

\* Aps.deserialize
ApsDeserialize(json, data_type) ==
    LET timeline == TimelineDeserialize(json, data_type)
        region   == GetRegion(timeline)
    IN  IF region.err # "none" THEN Raise(region.err, NewAps)
        ELSE Ok([elems |-> SetItem(NewContainer, region.val, timeline)])

----------------------------------------------------------------------------
(* Whole responses, and Aps.assimilate applied to what they deserialize to.*)

\* the lists of one or two distinct dates a response's TimeLine may hold, in
\* either order
DateLists ==
    {<<d>> : d \in 1..NumDates}
    \cup {<<p[1], p[2]>> : p \in {q \in (1..NumDates) \X (1..NumDates) : q[1] # q[2]}}

\* the band layouts of the whole responses: one with a top, one open at the top
ApsGrids == {1, 2}

\* a response for a data type other than wind
ApsJson(region, dates, g) ==
    [TimeLine |-> [i \in 1..Len(dates) |-> DayJson(dates[i], region, g)],
     RegionId |-> region, AltitudeDivider |-> None]

\* a wind response
WindApsJson(region, dates, t) ==
    [TimeLine |-> [i \in 1..Len(dates) |-> WindDayJson(dates[i])],
     RegionId |-> region, AltitudeDivider |-> AltitudeDivider(t)]

\* every Aps a single response deserializes to
FreshAps ==
    {ApsDeserialize(ApsJson(r, dates, g), t).val :
        r \in {TROMSO, SOR_TROMS}, dates \in DateLists, g \in ApsGrids, t \in FetchTypes}
    \cup {ApsDeserialize(WindApsJson(r, dates, t), "wind").val :
        r \in {TROMSO, SOR_TROMS}, dates \in DateLists, t \in 1..NumTreelines}

NoApsCall == [called |-> FALSE, self |-> NewAps, other |-> NewAps, out |-> Ok(NewAps)]

InitAps ==
    /\ ax = NewAps
    /\ ay = NewAps
    /\ ares = NoApsCall

\* Aps.deserialize(json, data_type), kept as the receiver of the next merge
DeserializeSelf ==
    /\ ax = NewAps
    /\ ~ares.called
    /\ \E a \in FreshAps : ax' = a
    /\ UNCHANGED <<ay, ares, dayVars, regVars, recVars, snowVars, fnVars, boxVars, resVars>>

\* Aps.deserialize(json, data_type), kept as the argument of the next merge
DeserializeOther ==
    /\ ay = NewAps
    /\ ~ares.called
    /\ \E a \in FreshAps : ay' = a
    /\ UNCHANGED <<ax, ares, dayVars, regVars, recVars, snowVars, fnVars, boxVars, resVars>>

\* ax.assimilate(ay), once per behaviour
AssimilateAps ==
    /\ ~ares.called
    /\ ares' = [called |-> TRUE, self |-> ax, other |-> ay, out |-> ApsAssimilate(ax, ay)]
    /\ ax' = ApsAfterAssimilate(ax, ay)
    /\ UNCHANGED <<ay, dayVars, regVars, recVars, snowVars, fnVars, boxVars, resVars>>

----------------------------------------------------------------------------
(* Notions the statements about Day.assimilate and Level.assimilate use.   *)

\* the levels Day.assimilate pairs in round i (0-based) of its for loop
PairedSelf(self, other, i) ==
    self.levels[(IF i < Len(self.levels) - 1 THEN i ELSE Len(self.levels) - 1) + 1]

PairedOther(self, other, i) ==
    other.levels[(IF i < Len(other.levels) - 1 THEN i ELSE Len(other.levels) - 1) + 1]

Rounds(self, other) ==
    IF self.levels = <<>> \/ other.levels = <<>> THEN {}
    ELSE 0..(Max(Len(self.levels), Len(other.levels)) - 1)

\* some pair of levels of the two days holds data for the same attribute
PairedConflict(self, other) ==
    \E i \in Rounds(self, other) :
        Conflicts(PairedSelf(self, other, i), PairedOther(self, other, i)) # {}

DaySlots(day) ==
    {a \in AttrNames : \E i \in 1..Len(day.levels) : day.levels[i].data[a] # None}

DisjointDays(a, b) == DaySlots(a) \cap DaySlots(b) = {}

LevelSlots(level) == {a \in AttrNames : level.data[a] # None}

DisjointLevels(a, b) == LevelSlots(a) \cap LevelSlots(b) = {}

DayLevels(day) == {day.levels[i] : i \in 1..Len(day.levels)}

\* the levels of every day a response may hold
FreshLevels == UNION {DayLevels(d) : d \in FreshDays}

\* the levels of the days at hand
KnownLevels == DayLevels(da) \cup DayLevels(db)

\* x.assimilate(y) for an x that is itself the outcome of a call
ThenDay(out, day) == IF out.err = "none" THEN DayAssimilate(out.val, day) ELSE out

DayThen(day, out) == IF out.err = "none" THEN DayAssimilate(day, out.val) ELSE out

ThenLevel(out, level) == IF out.err = "none" THEN LevelAssimilate(out.val, level) ELSE out

LevelThen(level, out) == IF out.err = "none" THEN LevelAssimilate(level, out.val) ELSE out

\* the two days have the same bands: as many levels, with the same floors and roofs
SameBands(a, b) ==
    /\ Len(a.levels) = Len(b.levels)
    /\ \A i \in 1..Len(a.levels) :
          a.levels[i].floor = b.levels[i].floor /\ a.levels[i].roof = b.levels[i].roof

----------------------------------------------------------------------------
(* C1: Level.assimilate raises the conflict error whenever some weather    *)
(* attribute is set on both levels, whichever level is the receiver, and   *)
(* Day.assimilate of two days of one date and region raises that same      *)
(* error whenever two levels it pairs hold the same attribute.             *)
C1_ConflictAlwaysRaised ==
    /\ \A l1 \in KnownLevels, l2 \in KnownLevels :
          Conflicts(l1, l2) # {} => LevelAssimilate(l1, l2).err = "Conflict"
    /\ (dres.called /\ dres.self.date = dres.other.date
            /\ dres.self.region = dres.other.region
            /\ PairedConflict(dres.self, dres.other))
          => (dres.out.err = "Conflict"
              /\ DayAssimilate(dres.other, dres.self).err = "Conflict")

----------------------------------------------------------------------------
(* C2: when two levels, or two days of one date and region as they come    *)
(* out of deserialization, hold data for disjoint attributes, assimilate succeeds and every attribute of every   *)
(* merged level has the value of the side that held it: for levels the     *)
(* value of the one level that has it, for days in every round the value   *)
(* of the paired level of the day that has it (for wind: of a level of the *)
(* wind day), and nothing else.                                            *)
C2_DisjointMergeKeepsAll ==
    /\ \A l1 \in KnownLevels, l2 \in KnownLevels :
          DisjointLevels(l1, l2) =>
             LET out == LevelAssimilate(l1, l2)
             IN  /\ out.err = "none"
                 /\ \A a \in AttrNames :
                       out.val.data[a] = (IF l1.data[a] # None THEN l1.data[a] ELSE l2.data[a])
    /\ (dres.called /\ dres.self.date = dres.other.date
            /\ dres.self.region = dres.other.region
            /\ dres.self \in FreshDays /\ dres.other \in FreshDays
            /\ DisjointDays(dres.self, dres.other))
          => /\ dres.out.err = "none"
             /\ \A i \in Rounds(dres.self, dres.other) :
                   LET s == PairedSelf(dres.self, dres.other, i)
                       o == PairedOther(dres.self, dres.other, i)
                       m == dres.out.val.levels[i + 1]
                   IN  \A a \in AttrNames \ {"wind"} :
                          m.data[a] = (IF s.data[a] # None THEN s.data[a] ELSE o.data[a])
             /\ DaySlots(dres.out.val) = DaySlots(dres.self) \cup DaySlots(dres.other)

----------------------------------------------------------------------------
(* C3: folding is order-independent.  For levels a, b, c and for days a,   *)
(* b, c of one date and region, as they come out of deserialization, whose *)
(* attributes are pairwise disjoint,                                       *)
(* a.assimilate(b) and b.assimilate(a) have the same outcome, and so have  *)
(* a.assimilate(b).assimilate(c) and a.assimilate(b.assimilate(c)).        *)
LevelsOrderIndependent ==
    \A a \in KnownLevels, b \in KnownLevels :
        DisjointLevels(a, b) =>
            /\ LevelAssimilate(a, b) = LevelAssimilate(b, a)
            /\ \A c \in FreshLevels :
                  (DisjointLevels(a, c) /\ DisjointLevels(b, c)) =>
                      ThenLevel(LevelAssimilate(a, b), c) = LevelThen(a, LevelAssimilate(b, c))

NoWindSameBands(a, b, c) ==
    \A x \in {a, b, c}, y \in {a, b, c} :
        ("wind" \notin DaySlots(x) /\ "wind" \notin DaySlots(y)) => SameBands(x, y)

----------------------------------------------------------------------------
(* Notions the statements about Container.assimilate use.                  *)

Entries(elems) == {elems[i] : i \in 1..Len(elems)}

\* iterating yields strictly ascending keys
Ascending(elems) == \A i \in 1..Len(elems), j \in 1..Len(elems) : i < j => elems[i].key < elems[j].key

SharedKeys(x, y) == Keys(x) \cap Keys(y)

\* merged holds the union of the keys of x and y, once each and in ascending order
HoldsUnion(merged, x, y) ==
    /\ Keys(merged) = Keys(x) \cup Keys(y)
    /\ Len(merged) = Cardinality(Keys(merged))
    /\ Ascending(merged)

\* under a key of only one side, merged holds that side's child
KeepsUnshared(merged, x, y) ==
    \A k \in Keys(merged) \ SharedKeys(x, y) :
        GetItem(merged, k) = (IF k \in Keys(x) THEN GetItem(x, k) ELSE GetItem(y, k))

\* the timelines of receiver, argument and result under a region all three hold
MergedTimelines ==
    {[x |-> GetItem(ares.self.elems, k), y |-> GetItem(ares.other.elems, k),
      merged |-> GetItem(ares.out.val.elems, k)] :
        k \in SharedKeys(ares.self.elems, ares.other.elems) \cap Keys(ares.out.val.elems)}

----------------------------------------------------------------------------
(* C4: the container assimilate returns holds the union of the two key     *)
(* sets in ascending key order; under a key of both sides it holds         *)
(* self[key].assimilate(other[key]), under a key of one side that side's   *)
(* child.  Checked for an Aps of timelines and for the timelines merged    *)
(* inside it.                                                              *)
C4_AssimilateIsKeyUnion ==
    (ares.called /\ ares.out.err = "none") =>
        LET x == ares.self.elems
            y == ares.other.elems
            merged == ares.out.val.elems
        IN  /\ HoldsUnion(merged, x, y)
            /\ KeepsUnshared(merged, x, y)
            /\ \A k \in SharedKeys(x, y) :
                  Ok(GetItem(merged, k)) = TimelineAssimilate(GetItem(x, k), GetItem(y, k))
            /\ \A t \in MergedTimelines :
                  /\ HoldsUnion(t.merged.elems, t.x.elems, t.y.elems)
                  /\ KeepsUnshared(t.merged.elems, t.x.elems, t.y.elems)
                  /\ \A d \in SharedKeys(t.x.elems, t.y.elems) :
                        Ok(GetItem(t.merged.elems, d))
                            = DayAssimilate(GetItem(t.x.elems, d), GetItem(t.y.elems, d))

\* two timelines of one region were merged: a date of both, and a date of the
\* argument alone that comes before a date of the receiver
C4_Witness ==
    /\ ares.called
    /\ ares.out.err = "none"
    /\ \E t \in MergedTimelines :
          /\ SharedKeys(t.x.elems, t.y.elems) # {}
          /\ \E d \in Keys(t.y.elems) \ Keys(t.x.elems) : \E e \in Keys(t.x.elems) : d < e
          /\ Len(t.merged.elems) = 2

----------------------------------------------------------------------------
(* C5: for containers a and b with no key in common, a.assimilate(b) and   *)
(* b.assimilate(a) succeed and hold the same entries in the same order,    *)
(* and with b empty a.assimilate(b) holds exactly the entries of a.        *)
(* Checked for an Aps of timelines and for the timelines merged inside it. *)
C5_DisjointKeysCommute ==
    ares.called =>
        /\ SharedKeys(ares.self.elems, ares.other.elems) = {} =>
              /\ ares.out.err = "none"
              /\ ApsAssimilate(ares.other, ares.self) = ares.out
              /\ ares.other.elems = <<>> =>
                    /\ Entries(ares.out.val.elems) = Entries(ares.self.elems)
                    /\ Len(ares.out.val.elems) = Len(ares.self.elems)
        /\ \A k \in SharedKeys(ares.self.elems, ares.other.elems) :
              LET a == GetItem(ares.self.elems, k)
                  b == GetItem(ares.other.elems, k)
              IN  SharedKeys(a.elems, b.elems) = {} =>
                     /\ TimelineAssimilate(a, b).err = "none"
                     /\ TimelineAssimilate(a, b) = TimelineAssimilate(b, a)

\* two Aps of different regions were merged, the receiver's region the larger
C5_Witness ==
    /\ ares.called
    /\ ares.self.elems # <<>>
    /\ ares.other.elems # <<>>
    /\ SharedKeys(ares.self.elems, ares.other.elems) = {}
    /\ ares.self.elems[1].key > ares.other.elems[1].key
    /\ Len(ares.out.val.elems) = 2

----------------------------------------------------------------------------
(* C6: assimilate mutates neither input: after x.assimilate(y) every       *)
(* attribute, key set and entry order of x and of y is what it was before  *)
(* the call.                                                               *)
C6_InputsUnchanged ==
    ares.called => (ax = ares.self /\ ay = ares.other)

----------------------------------------------------------------------------
(* submit.SnowRegistration.  An observation object is "obs", an attribute  *)
(* that holds none is "None"; the image lists of all observation types are *)
(* one list, in the order submit walks them, of the images' uuid.          *)

\* SnowRegistration.__init__
NewRegistration ==
    [any_obs |-> FALSE,
     danger_signs |-> <<>>, avalanche_obs |-> "None", avalanche_activities |-> <<>>,
     weather |-> "None", snow_cover |-> "None", compression_tests |-> <<>>,
     snow_profile |-> "None", avalanche_problems |-> <<>>, danger_assessment |-> "None",
     incident |-> "None", note |-> "None", images |-> <<>>]

\* the attributes the set_* methods assign, and the lists the add_* methods append to
SetAttrs == {"avalanche_obs", "weather", "snow_cover", "snow_profile",
             "danger_assessment", "incident", "note"}

AddAttrs == {"danger_signs", "avalanche_activities", "compression_tests"}

\* how much the registration holds of what MaxObs limits
Size(r) ==
    Cardinality({a \in SetAttrs : r[a] # "None"})
    + Len(r.danger_signs) + Len(r.avalanche_activities) + Len(r.compression_tests)
    + Len(r.images)

\* the record of a call: the method, what it raised, and any_obs and the
\* avalanche problems as they were before it
Call(method, err) ==
    [method |-> method, err |-> err, any_obs |-> reg.any_obs,
     avalanche_problems |-> reg.avalanche_problems]

NoRegCall == [method |-> "none", err |-> "none", any_obs |-> FALSE, avalanche_problems |-> <<>>]

\* no call of submit yet
NoSubmit ==
    [pc |-> "idle", reauths |-> 0, authenticated |-> FALSE, image |-> 0, uploads |-> 0,
     serialized |-> 0, posted |-> 0, err |-> "none"]

\* Connection.__init__
NewConnection == [authenticated |-> FALSE, expires |-> None]

InitReg ==
    /\ reg = NewRegistration
    /\ last = NoRegCall
    /\ conn = NewConnection
    /\ sub = NoSubmit

\* the registration is being built: submit has not been called
Building == sub.pc = "idle"

\* a set_* method: self.any_obs = True; self.<attr> = <observation>
SetObs(attr, method) ==
    /\ Building
    /\ reg[attr] # "None" \/ Size(reg) < MaxObs
    /\ reg' = [reg EXCEPT !.any_obs = TRUE, ![attr] = "obs"]
    /\ last' = Call(method, "none")
    /\ UNCHANGED <<conn, sub, dayVars, apsVars, recVars, snowVars, fnVars, boxVars, resVars>>

\* an add_* method without a cap: self.any_obs = True; self.<list>.append(<observation>)
AddObs(attr, method) ==
    /\ Building
    /\ Size(reg) < MaxObs
    /\ reg' = [reg EXCEPT !.any_obs = TRUE, ![attr] = Append(@, "obs")]
    /\ last' = Call(method, "none")
    /\ UNCHANGED <<conn, sub, dayVars, apsVars, recVars, snowVars, fnVars, boxVars, resVars>>

add_danger_sign == AddObs("danger_signs", "add_danger_sign")

set_avalanche_obs == SetObs("avalanche_obs", "set_avalanche_obs")

add_avalanche_activity == AddObs("avalanche_activities", "add_avalanche_activity")

set_weather == SetObs("weather", "set_weather")

set_snow_cover == SetObs("snow_cover", "set_snow_cover")

add_compression_test == AddObs("compression_tests", "add_compression_test")

set_snow_profile == SetObs("snow_profile", "set_snow_profile")

\* an add_avalanche_problem that lets a fourth problem in
add_avalanche_problem_CapFour ==
    /\ Building
    /\ IF Len(reg.avalanche_problems) > 3
       THEN /\ last' = Call("add_avalanche_problem", "ValueError")
            /\ UNCHANGED reg
       ELSE /\ reg' = [reg EXCEPT !.any_obs = TRUE,
                                  !.avalanche_problems = Append(@, "obs")]
            /\ last' = Call("add_avalanche_problem", "none")
    /\ UNCHANGED <<conn, sub, dayVars, apsVars, recVars, snowVars, fnVars, boxVars, resVars>>

\* SnowRegistration.add_avalanche_problem
add_avalanche_problem ==
    /\ Building
    /\ IF Len(reg.avalanche_problems) >= 3
       THEN /\ last' = Call("add_avalanche_problem", "ValueError")
            /\ UNCHANGED reg
       ELSE /\ reg' = [reg EXCEPT !.any_obs = TRUE,
                                  !.avalanche_problems = Append(@, "obs")]
            /\ last' = Call("add_avalanche_problem", "none")
    /\ UNCHANGED <<conn, sub, dayVars, apsVars, recVars, snowVars, fnVars, boxVars, resVars>>

set_danger_assessment == SetObs("danger_assessment", "set_danger_assessment")

set_incident == SetObs("incident", "set_incident")

set_note == SetObs("note", "set_note")

\* SnowRegistration.add_image: the parent type is an observation class or an
\* int (valid), or anything else
add_image ==
    /\ Building
    /\ \E valid \in BOOLEAN :
          IF valid
          THEN /\ Size(reg) < MaxObs
               /\ reg' = [reg EXCEPT !.images = Append(@, None)]
               /\ last' = Call("add_image", "none")
          ELSE /\ last' = Call("add_image", "ValueError")
               /\ UNCHANGED reg
    /\ UNCHANGED <<conn, sub, dayVars, apsVars, recVars, snowVars, fnVars, boxVars, resVars>>

ObsMethods ==
    {"add_danger_sign", "set_avalanche_obs", "add_avalanche_activity", "set_weather",
     "set_snow_cover", "add_compression_test", "set_snow_profile", "add_avalanche_problem",
     "set_danger_assessment", "set_incident", "set_note"}

----------------------------------------------------------------------------
(* connection.Connection.  Time is measured from now: expires is the       *)
(* number of seconds the token is still valid for.                         *)

\* the seconds=60 of Connection.submit
REAUTH_MARGIN == 60

\* the expires_in the modelled server answers with: less and more than the margin
ExpiresIn == {30, 120}

\* what the modelled server does to authenticate: a response without
\* access_token, a failing Account/Mypage request, or success
AuthAnswers == {"KeyError", "ApiError", "ok"}

\* Connection.authenticate, what it leaves of the connection
AuthenticateConn(c, answer, expires_in) ==
    IF answer = "KeyError" THEN c
    ELSE IF answer = "ApiError" THEN [c EXCEPT !.expires = expires_in]
    ELSE [authenticated |-> TRUE, expires |-> expires_in]

\* Connection.authenticate, called by the user
authenticate ==
    /\ Building
    /\ \E answer \in AuthAnswers, expires_in \in ExpiresIn :
          /\ conn' = AuthenticateConn(conn, answer, expires_in)
          /\ last' = Call("authenticate", IF answer = "ok" THEN "none" ELSE answer)
    /\ UNCHANGED <<reg, sub, dayVars, apsVars, recVars, snowVars, fnVars, boxVars, resVars>>

\* a minute passes
Tick ==
    /\ Building
    /\ conn.expires >= REAUTH_MARGIN
    /\ conn' = [conn EXCEPT !.expires = @ - REAUTH_MARGIN]
    /\ UNCHANGED <<reg, last, sub, dayVars, apsVars, recVars, snowVars, fnVars, boxVars, resVars>>

Done(s, err) == [s EXCEPT !.pc = "done", !.err = err]

\* a submit that does not look at any_obs
SubmitCheck_AnyObsUnchecked(c, r, s) ==
    IF ~c.authenticated THEN Done(s, "NotAuthenticatedError")
    ELSE IF c.expires < REAUTH_MARGIN
         THEN (IF s.reauths >= MaxReauth THEN Done(s, "RecursionError")
               ELSE [s EXCEPT !.pc = "authenticate"])
    ELSE IF r.images = <<>> THEN [s EXCEPT !.pc = "post"]
    ELSE [s EXCEPT !.pc = "upload", !.image = 1]

\* Connection.submit from its first line to its first request: the checks of
\* authenticated, of expires and of any_obs
SubmitCheck(c, r, s) ==
    IF ~c.authenticated THEN Done(s, "NotAuthenticatedError")
    ELSE IF c.expires < REAUTH_MARGIN
         THEN (IF s.reauths >= MaxReauth THEN Done(s, "RecursionError")
               ELSE [s EXCEPT !.pc = "authenticate"])
    ELSE IF ~r.any_obs THEN Done(s, "NoObservationError")
    ELSE IF r.images = <<>> THEN [s EXCEPT !.pc = "post"]
    ELSE [s EXCEPT !.pc = "upload", !.image = 1]

\* Connection.submit is called
submit ==
    /\ Building
    /\ sub' = SubmitCheck(conn, reg, [NoSubmit EXCEPT !.authenticated = conn.authenticated])
    /\ last' = NoRegCall
    /\ UNCHANGED <<reg, conn, dayVars, apsVars, recVars, snowVars, fnVars, boxVars, resVars>>

\* self.authenticate(...).submit(registration)
submit_authenticate ==
    /\ sub.pc = "authenticate"
    /\ \E answer \in AuthAnswers, expires_in \in ExpiresIn :
          LET c == AuthenticateConn(conn, answer, expires_in)
              s == [sub EXCEPT !.reauths = @ + 1]
          IN  /\ conn' = c
              /\ sub' = IF answer = "ok" THEN SubmitCheck(c, reg, s) ELSE Done(s, answer)
    /\ UNCHANGED <<reg, last, dayVars, apsVars, recVars, snowVars, fnVars, boxVars, resVars>>

\* a round of the loop that goes on after a response other than 200
submit_upload_StatusUnchecked ==
    /\ sub.pc = "upload"
    /\ \E answer \in {"ok", "ApiError", "OSError"} :
          /\ reg' = IF answer = "ok" THEN [reg EXCEPT !.images[sub.image] = sub.image] ELSE reg
          /\ sub' = IF answer = "OSError" THEN Done(sub, answer)
                    ELSE IF sub.image = Len(reg.images)
                    THEN [sub EXCEPT !.uploads = @ + 1, !.pc = "post"]
                    ELSE [sub EXCEPT !.uploads = @ + 1, !.image = @ + 1]
    /\ UNCHANGED <<last, conn, dayVars, apsVars, recVars, snowVars, fnVars, boxVars, resVars>>

\* one round of the loop over the images: open the file, post it, keep the id
submit_upload ==
    /\ sub.pc = "upload"
    /\ \E answer \in {"ok", "ApiError", "OSError"} :
          /\ reg' = IF answer = "ok" THEN [reg EXCEPT !.images[sub.image] = sub.image] ELSE reg
          /\ sub' = IF answer = "OSError" THEN Done(sub, answer)
                    ELSE IF answer = "ApiError"
                    THEN Done([sub EXCEPT !.uploads = @ + 1], answer)
                    ELSE IF sub.image = Len(reg.images)
                    THEN [sub EXCEPT !.uploads = @ + 1, !.pc = "post"]
                    ELSE [sub EXCEPT !.uploads = @ + 1, !.image = @ + 1]
    /\ UNCHANGED <<last, conn, dayVars, apsVars, recVars, snowVars, fnVars, boxVars, resVars>>

\* the post of registration.serialize()
submit_post ==
    /\ sub.pc = "post"
    /\ \E answer \in {"ok", "ApiError"} :
          LET s == [sub EXCEPT !.serialized = @ + 1, !.posted = @ + 1]
          IN  sub' = IF answer = "ok" THEN [s EXCEPT !.pc = "get"] ELSE Done(s, answer)
    /\ UNCHANGED <<reg, last, conn, dayVars, apsVars, recVars, snowVars, fnVars, boxVars, resVars>>

\* return self.get(reg_id)
submit_get ==
    /\ sub.pc = "get"
    /\ \E answer \in {"ok", "ApiError"} :
          sub' = Done(sub, IF answer = "ok" THEN "none" ELSE answer)
    /\ UNCHANGED <<reg, last, conn, dayVars, apsVars, recVars, snowVars, fnVars, boxVars, resVars>>

----------------------------------------------------------------------------
(* C7: a registration built by the constructor never holds more than 3     *)
(* avalanche problems: add_avalanche_problem called with 3 present raises  *)
(* and leaves the list of avalanche problems and any_obs as they were.     *)
C7_AtMostThreeProblems ==
    /\ Len(reg.avalanche_problems) <= 3
    /\ (last.method = "add_avalanche_problem" /\ Len(last.avalanche_problems) = 3) =>
          /\ last.err = "ValueError"
          /\ reg.avalanche_problems = last.avalanche_problems
          /\ reg.any_obs = last.any_obs

\* a fourth avalanche problem was refused
C7_Witness ==
    /\ last.method = "add_avalanche_problem"
    /\ last.err = "ValueError"
    /\ Len(reg.avalanche_problems) = 3

----------------------------------------------------------------------------
(* C8: every add_* and set_* observation method leaves any_obs true, and   *)
(* submit on an authenticated connection, given a registration whose       *)
(* any_obs is false, fails with NoObservationError without uploading an    *)
(* image, calling serialize or posting the registration.                   *)
MethodsSetAnyObs ==
    (last.method \in ObsMethods /\ last.err = "none") => reg.any_obs

NothingSent == sub.uploads = 0 /\ sub.serialized = 0 /\ sub.posted = 0

\* the original statement
C8_NoObservationError ==
    /\ MethodsSetAnyObs
    /\ (sub.pc = "done" /\ sub.authenticated /\ ~reg.any_obs) =>
          (sub.err = "NoObservationError" /\ NothingSent)

\* C8 as amended: nothing is ever sent for a registration without any_obs;
\* the call fails with NoObservationError unless the token is within the
\* margin of its expiry, when submit re-authenticates first and the failure
\* is NoObservationError or what the re-authentication ended with
C8_NoObservationNothingSent ==
    /\ MethodsSetAnyObs
    /\ (sub.pc # "idle" /\ ~reg.any_obs) =>
          (NothingSent /\ sub.pc \in {"authenticate", "done"})
    /\ (sub.pc = "done" /\ sub.authenticated /\ ~reg.any_obs) =>
          \/ sub.err = "NoObservationError"
          \/ sub.reauths > 0 /\ sub.err \in {"KeyError", "ApiError", "RecursionError"}

\* submit, its token about to expire, re-authenticated and then refused a
\* registration that holds an image but no observation
C8_Witness ==
    /\ sub.pc = "done"
    /\ sub.authenticated
    /\ ~reg.any_obs
    /\ reg.images # <<>>
    /\ sub.reauths > 0
    /\ sub.err = "NoObservationError"

----------------------------------------------------------------------------
(* The observation records of submit.py and their wire mapping.            *)
(*                                                                         *)
(* An enumerated, integer or boolean field is an integer (False 0, True    *)
(* 1), a text is its length (0 for "", 1 for a text with characters), and  *)
(* None is the integer None.  A field holding an object or a list is       *)
(* Nothing when it is None and Some(v) when it is v.  A wire object is a   *)
(* function from the keys it has to their values, so that json[k] of a key *)
(* it lacks is Python's KeyError.                                          *)

Nothing == <<>>

Some(v) == <<v>>

\* the arguments a text parameter is called with: "" and a text with characters
Texts == <<0, 1>>

\* the arguments a boolean parameter is called with: False and True
Bools == <<0, 1>>

\* the widest choice of values a table of arguments gives to one parameter
Widest(vals) ==
    CHOOSE n \in {Len(vals[f]) : f \in DOMAIN vals} :
        \A f \in DOMAIN vals : Len(vals[f]) <= n

\* the calls of a constructor that pass at most MaxArgs of its parameters,
\* each from the values vals gives it; the others take their defaults
Args(vals, defaults) ==
    UNION {{[f \in DOMAIN vals |-> IF f \in S THEN vals[f][h[f]] ELSE defaults[f]] :
                h \in {g \in [S -> 1..Widest(vals)] : \A f \in S : g[f] <= Len(vals[f])}} :
           S \in {T \in SUBSET DOMAIN vals : Cardinality(T) <= MaxArgs}}

\* _clean that drops None only
Clean_EmptyListsKept(json, scalars, lists) ==
    LET kept == {k \in DOMAIN json :
                    IF k \in scalars THEN json[k] # None ELSE json[k] # Nothing}
    IN  [k \in kept |-> IF k \in scalars THEN json[k] ELSE json[k][1]]

\* Serializable._clean: the keys whose value is neither None nor []
Clean(json, scalars, lists) ==
    LET kept == {k \in DOMAIN json :
                    IF k \in scalars THEN json[k] # None
                    ELSE IF k \in lists THEN json[k] \notin {Nothing, Some(<<>>)}
                    ELSE json[k] # Nothing}
    IN  [k \in kept |-> IF k \in scalars THEN json[k] ELSE json[k][1]]

\* {**a, **b}
Merge(a, b) ==
    [k \in DOMAIN a \cup DOMAIN b |-> IF k \in DOMAIN b THEN b[k] ELSE a[k]]

\* Deserializable._convert to an enumeration, int, float or str: a member of
\* the enumeration converts to itself and any other integer, by target_sec,
\* to itself as well
Convert(json, idx) ==
    IF idx \in DOMAIN json THEN json[idx] ELSE None

\* Deserializable._convert to bool
ConvertBool(json, idx) ==
    IF idx \in DOMAIN json /\ json[idx] # None
    THEN (IF json[idx] # 0 THEN 1 ELSE 0)
    ELSE None

\* round(x, -2) that drops the part below the hundred
RoundHundred_Down(x) == (x \div 100) * 100

\* round(x, -2) of a non-negative integer: to the nearest hundred, a tie to
\* the even one
RoundHundred(x) ==
    LET q == x \div 100
        r == x % 100
    IN  IF r < 50 \/ (r = 50 /\ q % 2 = 0) THEN q * 100 ELSE (q + 1) * 100

Min(a, b) == IF a <= b THEN a ELSE b

\* Elevation.Format
ABOVE == 1
BELOW == 2
SANDWICH == 3
MIDDLE == 4

\* Elevation.__init__
ElevationInit(elev_fmt, elev, elev_secondary) ==
    IF ~(0 <= elev /\ elev <= 4808)
       \/ (elev_secondary # None /\ ~(0 <= elev_secondary /\ elev_secondary <= 4808))
    THEN Raise("ValueError", Nothing)
    ELSE IF elev_fmt \in {ABOVE, BELOW} /\ elev_secondary # None
    THEN Raise("ValueError", Nothing)
    ELSE IF elev_fmt \in {SANDWICH, MIDDLE} /\ elev_secondary = None
    THEN Raise("ValueError", Nothing)
    ELSE IF elev_secondary # None
    THEN LET hi == RoundHundred(Max(elev, elev_secondary))
             lo == RoundHundred(Min(elev, elev_secondary))
         IN  Ok(Some([format |-> elev_fmt, elev_max |-> hi,
                      elev_min |-> IF hi = lo THEN lo - 100 ELSE lo]))
    ELSE Ok(Some([format |-> elev_fmt, elev_max |-> elev, elev_min |-> None]))

\* Elevation.serialize
ElevationSerialize(e) ==
    Clean([ExposedHeightComboTID |-> e.format,
           ExposedHeight1 |-> e.elev_max,
           ExposedHeight2 |-> e.elev_min],
          {"ExposedHeightComboTID", "ExposedHeight1", "ExposedHeight2"}, {})

\* Elevation.deserialize
ElevationDeserialize(json) ==
    LET elev_fmt == Convert(json, "ExposedHeightComboTID")
        elev == Convert(json, "ExposedHeight1")
        elev_secondary == Convert(json, "ExposedHeight2")
    IN  IF elev_secondary # None
        THEN IF elev = None
             THEN Raise("TypeError", Nothing)
             ELSE Ok(Some([format |-> elev_fmt,
                           elev_max |-> Max(elev, elev_secondary),
                           elev_min |-> Min(elev, elev_secondary)]))
        ELSE Ok(Some([format |-> elev_fmt, elev_max |-> elev, elev_min |-> None]))

\* Direction
Directions == 0..7

\* Expositions.serialize: the string of eight digits
ExpositionsSerialize(expositions) ==
    [i \in 1..8 |-> IF \E j \in DOMAIN expositions : expositions[j] = i - 1 THEN 1 ELSE 0]

RECURSIVE ValidsFrom(_, _)
\* the loop of Expositions.deserialize from the i-th character on
ValidsFrom(json, i) ==
    IF i > Len(json) THEN <<>>
    ELSE IF json[i] # 0 THEN <<i - 1>> \o ValidsFrom(json, i + 1)
    ELSE ValidsFrom(json, i + 1)

\* Expositions.deserialize without the test of the length
ExpositionsDeserialize_AnyLength(json) == Ok(Some(ValidsFrom(json, 1)))

\* Expositions.deserialize
ExpositionsDeserialize(json) ==
    IF Len(json) > 8 THEN Raise("ValueError", Nothing)
    ELSE Ok(Some(ValidsFrom(json, 1)))

\* the values the modelled calls give to the Elevation parameters: above
\* 1050 m, and between 1000 m and 1040 m, which the constructor rounds to
\* the band from 900 m to 1000 m
Elevations ==
    <<ElevationInit(ABOVE, 1050, None).val, ElevationInit(MIDDLE, 1000, 1040).val>>

\* the values the modelled calls give to the Expositions parameters:
\* Expositions([]), Expositions([N, S]) and Expositions([E, N])
ExpositionLists == <<Some(<<>>), Some(<<0, 4>>), Some(<<2, 0>>)>>

\* every parameter of vals defaults to None
NoneOf(vals) == [f \in DOMAIN vals |-> None]

\* DangerSign: RECENT_AVALANCHES, WHUMPF_SOUND
DangerSignVals == [sign |-> <<2, 3>>, comment |-> Texts]

DangerSignArgs == Args(DangerSignVals, NoneOf(DangerSignVals))

\* DangerSign.__init__
DangerSignInit(a) ==
    IF a.sign = None /\ a.comment = None
    THEN Raise("NoObservationError", a)
    ELSE Ok(a)

\* AvalancheObs: a Position, Direction.S, DestructiveSize.D2, Type.DRY_SLAB,
\* Trigger.HUMAN, Terrain.LEE_SIDE, WeakLayer.SH
AvalancheObsVals ==
    [start |-> <<Some([lat |-> 69, lon |-> 19])>>,
     stop |-> <<Some([lat |-> 69, lon |-> 20])>>,
     exposition |-> <<4>>, size |-> <<2>>, avalanche_type |-> <<22>>,
     trigger |-> <<26>>, terrain |-> <<20>>, weak_layer |-> <<11>>,
     fracture_height_cm |-> <<40>>, fracture_width |-> <<100>>,
     path_name |-> Texts, comment |-> Texts]

AvalancheObsDefaults ==
    [f \in DOMAIN AvalancheObsVals |-> IF f \in {"start", "stop"} THEN Nothing ELSE None]

\* release_time has no default: every call passes a time
AvalancheObsArgs ==
    {Merge(a, [release_time |-> 1]) : a \in Args(AvalancheObsVals, AvalancheObsDefaults)}

\* AvalancheObs.__init__
AvalancheObsInit(a) == Ok(a)

\* AvalancheActivity.Quantity
NO_ACTIVITY == 1

\* AvalancheActivity: Timeframe '0-6' and '18-24' as 1 and 4, Quantity
\* NO_ACTIVITY and FEW, Type.DRY_SLAB, Sensitivity.EASY, DestructiveSize.D2,
\* Distribution.SPECIFIC
AvalancheActivityVals ==
    [timeframe |-> <<1, 4>>, quantity |-> <<NO_ACTIVITY, 3>>, avalanche_type |-> <<20>>,
     sensitivity |-> <<50>>, size |-> <<2>>, distribution |-> <<2>>,
     elevation |-> Elevations, expositions |-> ExpositionLists, comment |-> Texts]

AvalancheActivityDefaults ==
    [f \in DOMAIN AvalancheActivityVals |->
        IF f \in {"elevation", "expositions"} THEN Nothing ELSE None]

\* date has no default: every call passes a date
AvalancheActivityArgs ==
    {Merge(a, [date |-> 1]) : a \in Args(AvalancheActivityVals, AvalancheActivityDefaults)}

\* timeframe_times of AvalancheActivity.__init__, in hours (23:59 as 24)
TimeframeTimes(timeframe) ==
    CASE timeframe = None -> [start |-> 0, end |-> 24]
      [] timeframe = 1 -> [start |-> 0, end |-> 6]
      [] timeframe = 2 -> [start |-> 6, end |-> 12]
      [] timeframe = 3 -> [start |-> 12, end |-> 18]
      [] timeframe = 4 -> [start |-> 18, end |-> 24]

\* AvalancheActivity.__init__
AvalancheActivityInit(a) ==
    IF a.quantity = NO_ACTIVITY
       /\ (\/ a.avalanche_type # None \/ a.sensitivity # None \/ a.size # None
           \/ a.distribution # None \/ a.elevation # Nothing \/ a.expositions # Nothing)
    THEN Raise("NoObservationError", Nothing)
    ELSE Ok([start |-> Some(<<a.date, TimeframeTimes(a.timeframe).start>>),
             end |-> Some(<<a.date, TimeframeTimes(a.timeframe).end>>),
             quantity |-> a.quantity, avalanche_type |-> a.avalanche_type,
             sensitivity |-> a.sensitivity, size |-> a.size,
             distribution |-> a.distribution, elevation |-> a.elevation,
             expositions |-> a.expositions, comment |-> a.comment])

\* Weather: Precipitation.RAIN, Direction.N and S, temperatures, a wind
\* speed, cloud cover percentages within and beyond 0..100
WeatherVals ==
    [precipitation |-> <<3>>, wind_dir |-> <<0, 4>>, air_temp |-> <<0, 5>>,
     wind_speed |-> <<3>>, cloud_cover_percent |-> <<0, 50, 101>>, comment |-> Texts]

WeatherArgs == Args(WeatherVals, NoneOf(WeatherVals))

\* Weather.__init__
WeatherInit(a) ==
    IF /\ a.precipitation = None /\ a.air_temp = None /\ a.wind_speed = None
       /\ a.cloud_cover_percent = None /\ a.wind_dir = None /\ a.comment = None
    THEN Raise("NoObservationError", a)
    ELSE IF a.cloud_cover_percent # None
            /\ ~(0 <= a.cloud_cover_percent /\ a.cloud_cover_percent <= 100)
    THEN Raise("ValueError", a)
    ELSE Ok(a)

\* SnowCover: Drift.SOME, Surface.CRUST, Moisture.DRY, depths and lines
SnowCoverVals ==
    [drift |-> <<2>>, surface |-> <<107>>, moisture |-> <<2>>, hn24_cm |-> <<0, 10>>,
     new_snow_line |-> <<500>>, hs_cm |-> <<120>>, snow_line |-> <<300>>,
     layered_snow_line |-> <<400>>, comment |-> Texts]

SnowCoverArgs == Args(SnowCoverVals, NoneOf(SnowCoverVals))

\* SnowCover.__init__
SnowCoverInit(a) ==
    IF \A f \in DOMAIN a : a[f] = None
    THEN Raise("NoObservationError", a)
    ELSE Ok(a)

\* CompressionTest.TestResult
ECTPV == 21
ECTX == 24
LBT == 5
CTV == 11
CTN == 15

\* CompressionTest: TestResult ECTPV, ECTP and ECTX, FractureQuality.Q1,
\* Stability.GOOD, numbers of taps within and beyond 1..30
CompressionTestVals ==
    [test_result |-> <<ECTPV, 22, ECTX>>, fracture_quality |-> <<1>>, stability |-> <<1>>,
     number_of_taps |-> <<0, 15, 30, 31>>, fracture_depth_cm |-> <<20>>,
     is_in_profile |-> Bools, comment |-> Texts]

CompressionTestArgs == Args(CompressionTestVals, NoneOf(CompressionTestVals))

\* CompressionTest.__init__ with the all-taps results taking any tap count
CompressionTestInit_AllTapsAny(a) ==
    LET no_taps == {ECTPV, LBT, CTV}
        all_taps == {ECTX, CTN}
    IN  IF \A f \in DOMAIN a : a[f] = None
        THEN Raise("NoObservationError", a)
        ELSE IF a.number_of_taps # None
                /\ ~(0 < a.number_of_taps /\ a.number_of_taps <= 30)
        THEN Raise("ValueError", a)
        ELSE IF a.number_of_taps # None /\ a.test_result \in no_taps
        THEN Raise("ValueError", a)
        ELSE IF a.fracture_depth_cm # None /\ a.test_result \in all_taps
        THEN Raise("ValueError", a)
        ELSE Ok(a)

\* CompressionTest.__init__
CompressionTestInit(a) ==
    LET no_taps == {ECTPV, LBT, CTV}
        all_taps == {ECTX, CTN}
    IN  IF \A f \in DOMAIN a : a[f] = None
        THEN Raise("NoObservationError", a)
        ELSE IF a.number_of_taps # None
                /\ ~(0 < a.number_of_taps /\ a.number_of_taps <= 30)
        THEN Raise("ValueError", a)
        ELSE IF a.number_of_taps # None
                /\ (\/ a.test_result \in no_taps
                    \/ (a.test_result \in all_taps
                        /\ ~(a.number_of_taps = 0 \/ a.number_of_taps = 30)))
        THEN Raise("ValueError", a)
        ELSE IF a.fracture_depth_cm # None /\ a.test_result \in all_taps
        THEN Raise("ValueError", a)
        ELSE Ok(a)

\* SnowProfile.Layer.__init__
LayerInit(thickness_cm, hardness, comment) ==
    IF thickness_cm # None /\ thickness_cm < 0
    THEN Raise("ValueError", Nothing)
    ELSE Ok([thickness_cm |-> thickness_cm, hardness |-> hardness,
             grain_form_primary |-> None, grain_size_mm |-> None, wetness |-> None,
             hardness_bottom |-> None, grain_form_sec |-> None,
             grain_size_max_mm |-> None, critical_layer |-> None,
             comment |-> comment])

\* SnowProfile.SnowTemp.__init__
SnowTempInit(depth_cm, temp_c) ==
    IF temp_c > 0
    THEN Raise("ValueError", Nothing)
    ELSE Ok([depth_cm |-> depth_cm, temp_c |-> temp_c])

\* SnowProfile.Density.__init__
DensityInit(thickness_cm, density_kg_per_cubic_metre) ==
    IF thickness_cm < 0
    THEN Raise("ValueError", Nothing)
    ELSE Ok([thickness_cm |-> thickness_cm,
             density_kg_per_cubic_metre |-> density_kg_per_cubic_metre])

\* SnowProfile: for each list None, [] and a list of one element (a layer of
\* 10 cm of Hardness.FIST, 0 degrees at 30 cm, 10 cm of 250 kg/m3)
SnowProfileVals ==
    [layers |-> <<Nothing, Some(<<>>), Some(<<LayerInit(10, 2, None).val>>)>>,
     temperatures |-> <<Nothing, Some(<<>>), Some(<<SnowTempInit(30, 0).val>>)>>,
     densities |-> <<Nothing, Some(<<>>), Some(<<DensityInit(10, 250).val>>)>>,
     is_profile_to_ground |-> Bools, comment |-> Texts]

\* the lists default to the empty tuple
SnowProfileDefaults ==
    [f \in DOMAIN SnowProfileVals |->
        IF f \in {"layers", "temperatures", "densities"} THEN Some(<<>>) ELSE None]

SnowProfileArgs == Args(SnowProfileVals, SnowProfileDefaults)

\* SnowProfile.__init__
SnowProfileInit(a) ==
    IF /\ a.layers = Nothing /\ a.temperatures = Nothing /\ a.densities = Nothing
       /\ a.comment = None
    THEN Raise("NoObservationError", a)
    ELSE Ok(a)

\* AvalancheProblem: WeakLayer.SH, LayerDepth.LESS_THAN_50_CM, Type.DRY_SLAB,
\* Sensitivity.EASY, DestructiveSize.D2, Distribution.SPECIFIC
AvalancheProblemVals ==
    [weak_layer |-> <<11>>, layer_depth |-> <<1>>, avalanche_type |-> <<20>>,
     sensitivity |-> <<50>>, size |-> <<2>>, distribution |-> <<2>>,
     elevation |-> Elevations, expositions |-> ExpositionLists,
     is_easy_propagation |-> Bools, is_layer_thin |-> Bools,
     is_soft_slab_above |-> Bools, is_large_crystals |-> Bools, comment |-> Texts]

AvalancheProblemDefaults ==
    [f \in DOMAIN AvalancheProblemVals |->
        IF f \in {"elevation", "expositions"} THEN Nothing ELSE None]

AvalancheProblemArgs == Args(AvalancheProblemVals, AvalancheProblemDefaults)

\* AvalancheProblem.__init__
AvalancheProblemInit(a) ==
    IF \A f \in DOMAIN a : a[f] = AvalancheProblemDefaults[f]
    THEN Raise("NoObservationError", a)
    ELSE Ok(a)

\* DangerAssessment: DangerLevel.THREE_CONSIDERABLE, ForecastEvaluation.TOO_LOW
DangerAssessmentVals ==
    [danger_level |-> <<3>>, forecast_evaluation |-> <<2>>, danger_assessment |-> Texts,
     danger_development |-> Texts, comment |-> Texts]

DangerAssessmentArgs == Args(DangerAssessmentVals, NoneOf(DangerAssessmentVals))

\* DangerAssessment.__init__
DangerAssessmentInit(a) ==
    IF \A f \in DOMAIN a : a[f] = None
    THEN Raise("NoObservationError", a)
    ELSE Ok(a)

\* Incident: Activity.BACKCOUNTRY, Extent.CLOSE_CALL
IncidentVals == [activity |-> <<111>>, extent |-> <<27>>, comment |-> Texts]

IncidentArgs == Args(IncidentVals, NoneOf(IncidentVals))

\* Incident.__init__
IncidentInit(a) ==
    IF a.activity = None /\ a.extent = None /\ a.comment = None
    THEN Raise("NoObservationError", a)
    ELSE Ok([activity |-> a.activity, extent |-> a.extent, comment |-> a.comment,
             urls |-> <<>>])

\* comment has no default: a call passes None, "" or a text with characters
NoteArgs == {[comment |-> c] : c \in {None, 0, 1}}

\* Note.__init__
NoteInit(a) == Ok([comment |-> a.comment, urls |-> <<>>])

\* Url.__init__
UrlInit(url, description) == [description |-> description, url |-> url]

\* Incident.add_url and Note.add_url
AddUrl(o, url) == [o EXCEPT !.urls = Append(@, url)]

\* x / 100 of Layer, SnowTemp and Density.serialize, as an exact fraction:
\* the rounding of Python's floats is not modelled
Hundredth(x) == [num |-> x, den |-> 100]

\* x * 100 of Layer, SnowTemp and Density.deserialize
TimesHundred(x) == (x.num * 100) \div x.den

\* round(x / d) of non-negative integers: a tie goes to the even one
RoundDiv(x, d) ==
    LET q == x \div d
        r == x % d
    IN  IF 2 * r < d \/ (2 * r = d /\ q % 2 = 0) THEN q ELSE q + 1

\* DangerSign.serialize
DangerSignSerialize(o) ==
    Ok(Clean([DangerSignTID |-> IF o.sign # None THEN o.sign ELSE 0,
              Comment |-> o.comment],
             {"DangerSignTID", "Comment"}, {}))

\* DangerSign.deserialize
DangerSignDeserialize(json) ==
    LET sign == Convert(json, "DangerSignTID")
    IN  Ok([sign |-> IF sign # 0 THEN sign ELSE None,
            comment |-> Convert(json, "Comment")])

\* Weather.serialize
WeatherSerialize(o) ==
    Ok(Clean([AirTemperature |-> o.air_temp,
              CloudCover |-> o.cloud_cover_percent,
              Comment |-> o.comment,
              PrecipitationTID |-> o.precipitation,
              WindDirection |-> IF o.wind_dir # None THEN o.wind_dir * 45 ELSE None,
              WindSpeed |-> o.wind_speed],
             {"AirTemperature", "CloudCover", "Comment", "PrecipitationTID",
              "WindDirection", "WindSpeed"}, {}))

\* Weather.deserialize
WeatherDeserialize(json) ==
    Ok([precipitation |-> Convert(json, "PrecipitationTID"),
        wind_dir |-> IF Convert(json, "WindDirection") # None
                     THEN RoundDiv(json.WindDirection, 45) % 8
                     ELSE None,
        air_temp |-> Convert(json, "AirTemperature"),
        wind_speed |-> Convert(json, "WindSpeed"),
        cloud_cover_percent |-> Convert(json, "CloudCover"),
        comment |-> Convert(json, "Comment")])

\* DangerAssessment.serialize
DangerAssessmentSerialize(o) ==
    Ok(Clean([AvalancheDangerTID |-> o.danger_level,
              ForecastCorrectTID |-> o.forecast_evaluation,
              AvalancheEvaluation |-> o.danger_assessment,
              AvalancheDevelopment |-> o.danger_development,
              ForecastComment |-> o.comment],
             {"AvalancheDangerTID", "ForecastCorrectTID", "AvalancheEvaluation",
              "AvalancheDevelopment", "ForecastComment"}, {}))

\* DangerAssessment.deserialize
DangerAssessmentDeserialize(json) ==
    Ok([danger_level |-> Convert(json, "AvalancheDangerTID"),
        forecast_evaluation |-> Convert(json, "ForecastCorrectTID"),
        danger_assessment |-> Convert(json, "AvalancheEvaluation"),
        danger_development |-> Convert(json, "AvalancheDevelopment"),
        comment |-> Convert(json, "ForecastComment")])

\* Url.serialize
UrlSerialize(u) ==
    Clean([UrlDescription |-> u.description, UrlLine |-> u.url],
          {"UrlDescription", "UrlLine"}, {})

\* Url.deserialize
UrlDeserialize(json) ==
    UrlInit(Convert(json, "UrlLine"), Convert(json, "UrlDescription"))

\* Incident.serialize
IncidentSerialize(o) ==
    Ok(Clean([ActivityInfluencedTID |-> o.activity,
              Comment |-> o.comment,
              DamageExtentTID |-> o.extent,
              IncidentURLs |-> Some([i \in DOMAIN o.urls |-> UrlSerialize(o.urls[i])])],
             {"ActivityInfluencedTID", "Comment", "DamageExtentTID"}, {"IncidentURLs"}))

\* Incident.deserialize
IncidentDeserialize(json) ==
    IF "IncidentURLs" \notin DOMAIN json
    THEN Raise("KeyError", Nothing)
    ELSE Ok([activity |-> Convert(json, "ActivityInfluencedTID"),
             extent |-> Convert(json, "DamageExtentTID"),
             comment |-> Convert(json, "Comment"),
             urls |-> [i \in DOMAIN json.IncidentURLs |->
                          UrlDeserialize(json.IncidentURLs[i])]])

\* Note.serialize
NoteSerialize(o) ==
    Ok(Clean([ObsComment |-> o.comment,
              Urls |-> Some([i \in DOMAIN o.urls |-> UrlSerialize(o.urls[i])])],
             {"ObsComment"}, {"Urls"}))

\* Note.deserialize
NoteDeserialize(json) ==
    LET note == NoteInit([comment |-> Convert(json, "ObsComment")]).val
    IN  IF "Urls" \notin DOMAIN json
        THEN Raise("KeyError", Nothing)
        ELSE Ok([note EXCEPT !.urls = [i \in DOMAIN json.Urls |->
                                          UrlDeserialize(json.Urls[i])]])

\* SnowProfile.Layer.serialize
LayerSerialize(l) ==
    Clean([Thickness |-> IF l.thickness_cm # None THEN Some(Hundredth(l.thickness_cm))
                         ELSE Nothing,
           HardnessTID |-> l.hardness,
           GrainFormPrimaryTID |-> l.grain_form_primary,
           GrainSizeAvg |-> IF l.grain_size_mm # None THEN Some(Hundredth(l.grain_size_mm))
                            ELSE Nothing,
           WetnessTID |-> l.wetness,
           HardnessBottomTID |-> l.hardness_bottom,
           GrainFormSecondaryTID |-> l.grain_form_sec,
           GrainSizeAvgMax |-> IF l.grain_size_max_mm # None
                               THEN Some(Hundredth(l.grain_size_max_mm))
                               ELSE Nothing,
           CriticalLayerTID |-> l.critical_layer,
           Comment |-> l.comment],
          {"HardnessTID", "GrainFormPrimaryTID", "WetnessTID", "HardnessBottomTID",
           "GrainFormSecondaryTID", "CriticalLayerTID", "Comment"}, {})

\* Deserializable._apply of x * 100
ApplyTimesHundred(json, idx) ==
    IF idx \in DOMAIN json THEN TimesHundred(json[idx]) ELSE None

\* SnowProfile.Layer.deserialize
LayerDeserialize(json) ==
    [thickness_cm |-> ApplyTimesHundred(json, "Thickness"),
     hardness |-> Convert(json, "HardnessTID"),
     grain_form_primary |-> Convert(json, "GrainFormPrimaryTID"),
     grain_size_mm |-> ApplyTimesHundred(json, "GrainSizeAvg"),
     wetness |-> Convert(json, "WetnessTID"),
     hardness_bottom |-> Convert(json, "HardnessBottomTID"),
     grain_form_sec |-> Convert(json, "GrainFormSecondaryTID"),
     grain_size_max_mm |-> ApplyTimesHundred(json, "GrainSizeAvgMax"),
     critical_layer |-> Convert(json, "CriticalLayerTID"),
     comment |-> Convert(json, "Comment")]

\* SnowProfile.SnowTemp.serialize
SnowTempSerialize(t) ==
    Clean([Depth |-> IF t.depth_cm # None THEN Some(Hundredth(t.depth_cm)) ELSE Nothing,
           SnowTemp |-> t.temp_c],
          {"SnowTemp"}, {})

\* SnowProfile.SnowTemp.deserialize
SnowTempDeserialize(json) ==
    [depth_cm |-> ApplyTimesHundred(json, "Depth"),
     temp_c |-> Convert(json, "SnowTemp")]

\* SnowProfile.Density.serialize
DensitySerialize(d) ==
    Clean([Thickness |-> IF d.thickness_cm # None THEN Some(Hundredth(d.thickness_cm))
                         ELSE Nothing,
           Density |-> d.density_kg_per_cubic_metre],
          {"Density"}, {})

\* SnowProfile.Density.deserialize
DensityDeserialize(json) ==
    [thickness_cm |-> ApplyTimesHundred(json, "Thickness"),
     density_kg_per_cubic_metre |-> Convert(json, "Density")]

\* SnowProfile.serialize: list(map(..., None)) and len(None) are TypeErrors
SnowProfileSerialize(o) ==
    IF o.layers = Nothing \/ o.temperatures = Nothing \/ o.densities = Nothing
    THEN Raise("TypeError", Nothing)
    ELSE LET layers == o.layers[1]
             temperatures == o.temperatures[1]
             densities == o.densities[1]
         IN  Ok(Clean(
                [StratProfile |->
                    Some(Clean([Layers |-> Some([i \in DOMAIN layers |->
                                                    LayerSerialize(layers[i])])],
                               {}, {"Layers"})),
                 SnowTemp |->
                    Some(Clean([Layers |-> Some([i \in DOMAIN temperatures |->
                                                    SnowTempSerialize(temperatures[i])])],
                               {}, {"Layers"})),
                 SnowDensity |->
                    IF Len(densities) # 0
                    THEN Some(<<Clean([Layers |-> Some([i \in DOMAIN densities |->
                                                           DensitySerialize(densities[i])])],
                                      {}, {"Layers"})>>)
                    ELSE Nothing,
                 IsProfileToGround |-> o.is_profile_to_ground,
                 Comment |-> o.comment],
                {"IsProfileToGround", "Comment"}, {"SnowDensity"}))

RECURSIVE DensitiesFrom(_, _, _)
\* the loop of SnowProfile.deserialize over json["SnowDensity"] from its i-th
\* element on, densities being what the elements before it gave
DensitiesFrom(elems, i, densities) ==
    IF i > Len(elems) THEN densities
    ELSE IF "Layers" \in DOMAIN elems[i]
    THEN DensitiesFrom(elems, i + 1,
            Some((IF densities = Nothing THEN <<>> ELSE densities[1])
                 \o [j \in DOMAIN elems[i].Layers |->
                        DensityDeserialize(elems[i].Layers[j])]))
    ELSE DensitiesFrom(elems, i + 1, densities)

\* SnowProfile.deserialize
SnowProfileDeserialize(json) ==
    Ok([layers |->
            IF "StratProfile" \in DOMAIN json /\ "Layers" \in DOMAIN json.StratProfile
            THEN Some([i \in DOMAIN json.StratProfile.Layers |->
                          LayerDeserialize(json.StratProfile.Layers[i])])
            ELSE Nothing,
        temperatures |->
            IF "SnowTemp" \in DOMAIN json /\ "Layers" \in DOMAIN json.SnowTemp
            THEN Some([i \in DOMAIN json.SnowTemp.Layers |->
                          SnowTempDeserialize(json.SnowTemp.Layers[i])])
            ELSE Nothing,
        densities |->
            IF "SnowDensity" \in DOMAIN json
            THEN DensitiesFrom(json.SnowDensity, 1, Nothing)
            ELSE Nothing,
        is_profile_to_ground |-> ConvertBool(json, "IsProfileToGround"),
        comment |-> Convert(json, "Comment")])

\* `n if flag else None` of AvalancheProblem.serialize
IfFlag(flag, n) == IF flag \notin {None, 0} THEN n ELSE None

\* AvalancheProblem.serialize
AvalancheProblemSerialize(o) ==
    LET obs == [AvalCauseTID |-> o.weak_layer,
                AvalCauseDepthTID |-> o.layer_depth,
                AvalCauseAttributeLightTID |-> IfFlag(o.is_easy_propagation, 1),
                AvalCauseAttributeThinTID |-> IfFlag(o.is_layer_thin, 2),
                AvalCauseAttributeSoftTID |-> IfFlag(o.is_soft_slab_above, 4),
                AvalCauseAttributeCrystalTID |-> IfFlag(o.is_large_crystals, 8),
                AvalancheExtTID |-> o.avalanche_type,
                AvalTriggerSimpleTID |-> o.sensitivity,
                DestructiveSizeTID |-> o.size,
                AvalPropagationTID |-> o.distribution,
                Comment |-> o.comment,
                ValidExposition |-> IF o.expositions # Nothing
                                    THEN Some(ExpositionsSerialize(o.expositions[1]))
                                    ELSE Nothing]
        all == IF o.elevation # Nothing
               THEN Merge(obs, ElevationSerialize(o.elevation[1]))
               ELSE obs
    IN  Ok(Clean(all, DOMAIN all \ {"ValidExposition"}, {}))

\* AvalancheProblem.deserialize
AvalancheProblemDeserialize(json) ==
    LET elev == IF {"ExposedHeightComboTID", "ExposedHeight1"} \subseteq DOMAIN json
                THEN ElevationDeserialize(json)
                ELSE Ok(Nothing)
        exps == IF "ValidExposition" \in DOMAIN json
                THEN ExpositionsDeserialize(json.ValidExposition)
                ELSE Ok(Nothing)
    IN  IF elev.err # "none" THEN elev
        ELSE IF exps.err # "none" THEN exps
        ELSE Ok([weak_layer |-> Convert(json, "AvalCauseTID"),
                 layer_depth |-> Convert(json, "AvalCauseDepthTID"),
                 avalanche_type |-> Convert(json, "AvalancheExtTID"),
                 sensitivity |-> Convert(json, "AvalTriggerSimpleTID"),
                 size |-> Convert(json, "DestructiveSizeTID"),
                 distribution |-> Convert(json, "AvalPropagationTID"),
                 elevation |-> elev.val,
                 expositions |-> exps.val,
                 is_easy_propagation |-> ConvertBool(json, "AvalCauseAttributeLightTID"),
                 is_layer_thin |-> ConvertBool(json, "AvalCauseAttributeThinTID"),
                 is_soft_slab_above |-> ConvertBool(json, "AvalCauseAttributeSoftTID"),
                 is_large_crystals |-> ConvertBool(json, "AvalCauseAttributeCrystalTID"),
                 comment |-> Convert(json, "Comment")])

\* datetime.isoformat: the text of a time
IsoFormat(t) == [iso |-> t]

\* datetime.fromisoformat
FromIsoFormat(x) == x.iso

\* Deserializable._apply of fromisoformat
ApplyFromIso(json, idx) ==
    IF idx \in DOMAIN json THEN Some(FromIsoFormat(json[idx])) ELSE Nothing

\* x / 100 if x is not None else None
HundredthOrNone(x) == IF x # None THEN Some(Hundredth(x)) ELSE Nothing

\* AvalancheObs.serialize
AvalancheObsSerialize(o) ==
    Ok(Clean([AvalCauseTID |-> o.weak_layer,
              AvalancheTID |-> o.avalanche_type,
              AvalancheTriggerTID |-> o.trigger,
              Comment |-> o.comment,
              DestructiveSizeTID |-> o.size,
              DtAvalancheTime |-> Some(IsoFormat(o.release_time)),
              FractureHeight |-> o.fracture_height_cm,
              FractureWidth |-> o.fracture_width,
              StartLat |-> IF o.start # Nothing THEN o.start[1].lat ELSE None,
              StartLong |-> IF o.start # Nothing THEN o.start[1].lon ELSE None,
              StopLat |-> IF o.stop # Nothing THEN o.stop[1].lat ELSE None,
              StopLong |-> IF o.stop # Nothing THEN o.stop[1].lon ELSE None,
              TerrainStartZoneTID |-> o.terrain,
              Trajectory |-> o.path_name,
              ValidExposition |-> IF o.exposition # None
                                  THEN Some(ExpositionsSerialize(<<o.exposition>>))
                                  ELSE Nothing],
             {"AvalCauseTID", "AvalancheTID", "AvalancheTriggerTID", "Comment",
              "DestructiveSizeTID", "FractureHeight", "FractureWidth", "StartLat",
              "StartLong", "StopLat", "StopLong", "TerrainStartZoneTID", "Trajectory"},
             {}))

\* AvalancheObs.deserialize: a ValueError of Expositions.deserialize leaves
\* the exposition None
AvalancheObsDeserialize(json) ==
    LET start_lat == Convert(json, "StartLat")
        start_lon == Convert(json, "StartLong")
        stop_lat == Convert(json, "StopLat")
        stop_lon == Convert(json, "StopLong")
        exps == IF "ValidExposition" \in DOMAIN json
                THEN ExpositionsDeserialize(json.ValidExposition)
                ELSE Ok(Some(<<>>))
        release == ApplyFromIso(json, "DtAvalancheTime")
    IN  AvalancheObsInit(
            [release_time |-> IF release # Nothing THEN release[1] ELSE None,
             start |-> IF start_lat # None /\ start_lon # None
                       THEN Some([lat |-> start_lat, lon |-> start_lon]) ELSE Nothing,
             stop |-> IF stop_lat # None /\ stop_lon # None
                      THEN Some([lat |-> stop_lat, lon |-> stop_lon]) ELSE Nothing,
             exposition |-> IF exps.err = "none" /\ exps.val[1] # <<>>
                            THEN exps.val[1][1] ELSE None,
             size |-> Convert(json, "DestructiveSizeTID"),
             avalanche_type |-> Convert(json, "AvalancheTID"),
             trigger |-> Convert(json, "AvalancheTriggerTID"),
             terrain |-> Convert(json, "TerrainStartZoneTID"),
             weak_layer |-> Convert(json, "AvalCauseTID"),
             fracture_height_cm |-> Convert(json, "FractureHeight"),
             fracture_width |-> Convert(json, "FractureWidth"),
             path_name |-> Convert(json, "Trajectory"),
             comment |-> Convert(json, "Comment")])

\* AvalancheActivity.serialize
AvalancheActivitySerialize(o) ==
    LET obs == [AvalPropagationTID |-> o.distribution,
                AvalTriggerSimpleTID |-> o.sensitivity,
                AvalancheExtTID |-> o.avalanche_type,
                Comment |-> o.comment,
                DestructiveSizeTID |-> o.size,
                DtEnd |-> Some(IsoFormat(o.end[1])),
                DtStart |-> Some(IsoFormat(o.start[1])),
                EstimatedNumTID |-> o.quantity,
                ValidExposition |-> IF o.expositions # Nothing
                                    THEN Some(ExpositionsSerialize(o.expositions[1]))
                                    ELSE Nothing]
        all == IF o.elevation # Nothing
               THEN Merge(obs, ElevationSerialize(o.elevation[1]))
               ELSE obs
    IN  Ok(Clean(all, DOMAIN all \ {"DtEnd", "DtStart", "ValidExposition"}, {}))

\* AvalancheActivity.deserialize; start and end are Nothing when their key
\* is missing
AvalancheActivityDeserialize(json) ==
    LET elev == IF {"ExposedHeightComboTID", "ExposedHeight1"} \subseteq DOMAIN json
                THEN ElevationDeserialize(json)
                ELSE Ok(Nothing)
        exps == IF "ValidExposition" \in DOMAIN json
                THEN ExpositionsDeserialize(json.ValidExposition)
                ELSE Ok(Nothing)
    IN  IF elev.err # "none" THEN elev
        ELSE IF exps.err # "none" THEN exps
        ELSE Ok([start |-> ApplyFromIso(json, "DtStart"),
                 end |-> ApplyFromIso(json, "DtEnd"),
                 quantity |-> Convert(json, "EstimatedNumTID"),
                 avalanche_type |-> Convert(json, "AvalancheExtTID"),
                 sensitivity |-> Convert(json, "AvalTriggerSimpleTID"),
                 size |-> Convert(json, "DestructiveSizeTID"),
                 distribution |-> Convert(json, "AvalPropagationTID"),
                 elevation |-> elev.val,
                 expositions |-> exps.val,
                 comment |-> Convert(json, "Comment")])

\* SnowCover.serialize
SnowCoverSerialize(o) ==
    Ok(Clean([Comment |-> o.comment,
              HeightLimitLayeredSnow |-> o.layered_snow_line,
              NewSnowDepth24 |-> HundredthOrNone(o.hn24_cm),
              NewSnowLine |-> o.new_snow_line,
              SnowDepth |-> HundredthOrNone(o.hs_cm),
              SnowDriftTID |-> o.drift,
              SnowLine |-> o.snow_line,
              SnowSurfaceTID |-> o.surface,
              SurfaceWaterContentTID |-> o.moisture],
             {"Comment", "HeightLimitLayeredSnow", "NewSnowLine", "SnowDriftTID",
              "SnowLine", "SnowSurfaceTID", "SurfaceWaterContentTID"}, {}))

\* SnowCover.deserialize
SnowCoverDeserialize(json) ==
    Ok([drift |-> Convert(json, "SnowDriftTID"),
        surface |-> Convert(json, "SnowSurfaceTID"),
        moisture |-> Convert(json, "SurfaceWaterContentTID"),
        hn24_cm |-> ApplyTimesHundred(json, "NewSnowDepth24"),
        new_snow_line |-> Convert(json, "NewSnowLine"),
        hs_cm |-> ApplyTimesHundred(json, "SnowDepth"),
        snow_line |-> Convert(json, "SnowLine"),
        layered_snow_line |-> Convert(json, "HeightLimitLayeredSnow"),
        comment |-> Convert(json, "Comment")])

\* CompressionTest.serialize
CompressionTestSerialize(o) ==
    Ok(Clean([PropagationTID |-> o.test_result,
              ComprTestFractureTID |-> o.fracture_quality,
              StabilityEvalTID |-> o.stability,
              TapsFracture |-> o.number_of_taps,
              FractureDepth |-> HundredthOrNone(o.fracture_depth_cm),
              IncludeInSnowProfile |-> o.is_in_profile,
              Comment |-> o.comment],
             {"PropagationTID", "ComprTestFractureTID", "StabilityEvalTID",
              "TapsFracture", "IncludeInSnowProfile", "Comment"}, {}))

\* CompressionTest.deserialize
CompressionTestDeserialize(json) ==
    Ok([test_result |-> Convert(json, "PropagationTID"),
        fracture_quality |-> Convert(json, "ComprTestFractureTID"),
        stability |-> Convert(json, "StabilityEvalTID"),
        number_of_taps |-> Convert(json, "TapsFracture"),
        fracture_depth_cm |-> ApplyTimesHundred(json, "FractureDepth"),
        is_in_profile |-> ConvertBool(json, "IncludeInSnowProfile"),
        comment |-> Convert(json, "Comment")])

\* the record types whose wire mapping is modelled
WireTypes ==
    {"DangerSign", "AvalancheObs", "AvalancheActivity", "Weather", "SnowCover",
     "CompressionTest", "SnowProfile", "AvalancheProblem", "DangerAssessment",
     "Incident", "Note"}

\* Observation.serialize of a record of the type
Serialize(type, o) ==
    CASE type = "DangerSign" -> DangerSignSerialize(o)
      [] type = "AvalancheObs" -> AvalancheObsSerialize(o)
      [] type = "AvalancheActivity" -> AvalancheActivitySerialize(o)
      [] type = "SnowCover" -> SnowCoverSerialize(o)
      [] type = "CompressionTest" -> CompressionTestSerialize(o)
      [] type = "Weather" -> WeatherSerialize(o)
      [] type = "SnowProfile" -> SnowProfileSerialize(o)
      [] type = "AvalancheProblem" -> AvalancheProblemSerialize(o)
      [] type = "DangerAssessment" -> DangerAssessmentSerialize(o)
      [] type = "Incident" -> IncidentSerialize(o)
      [] type = "Note" -> NoteSerialize(o)

\* Observation.deserialize of the type
Deserialize(type, json) ==
    CASE type = "DangerSign" -> DangerSignDeserialize(json)
      [] type = "AvalancheObs" -> AvalancheObsDeserialize(json)
      [] type = "AvalancheActivity" -> AvalancheActivityDeserialize(json)
      [] type = "SnowCover" -> SnowCoverDeserialize(json)
      [] type = "CompressionTest" -> CompressionTestDeserialize(json)
      [] type = "Weather" -> WeatherDeserialize(json)
      [] type = "SnowProfile" -> SnowProfileDeserialize(json)
      [] type = "AvalancheProblem" -> AvalancheProblemDeserialize(json)
      [] type = "DangerAssessment" -> DangerAssessmentDeserialize(json)
      [] type = "Incident" -> IncidentDeserialize(json)
      [] type = "Note" -> NoteDeserialize(json)

\* the URLs the modelled calls of add_url pass: with and without a description
Urls == {UrlInit(1, description) : description \in {0, 1}}

\* no constructor called yet
NoObs == [type |-> "none", args |-> Nothing, out |-> Ok(Nothing)]

\* nothing serialized yet; missing is the set of keys the wire object has lost
NoWire == [stage |-> "none", json |-> Ok(Nothing), missing |-> {}, back |-> Ok(Nothing)]

InitRec ==
    /\ rec = NoObs
    /\ wire = NoWire

\* a call of the constructor of the type with the arguments a; a behaviour
\* follows one record
Construct(type, a, out) ==
    /\ rec = NoObs
    /\ rec' = [type |-> type, args |-> a, out |-> out]
    /\ wire' = NoWire
    /\ UNCHANGED <<dayVars, apsVars, regVars, snowVars, fnVars, boxVars, resVars>>

DangerSign == \E a \in DangerSignArgs : Construct("DangerSign", a, DangerSignInit(a))

AvalancheObs == \E a \in AvalancheObsArgs : Construct("AvalancheObs", a, AvalancheObsInit(a))

AvalancheActivity ==
    \E a \in AvalancheActivityArgs :
        Construct("AvalancheActivity", a, AvalancheActivityInit(a))

Weather == \E a \in WeatherArgs : Construct("Weather", a, WeatherInit(a))

SnowCover == \E a \in SnowCoverArgs : Construct("SnowCover", a, SnowCoverInit(a))

CompressionTest ==
    \E a \in CompressionTestArgs : Construct("CompressionTest", a, CompressionTestInit(a))

SnowProfile == \E a \in SnowProfileArgs : Construct("SnowProfile", a, SnowProfileInit(a))

AvalancheProblem ==
    \E a \in AvalancheProblemArgs :
        Construct("AvalancheProblem", a, AvalancheProblemInit(a))

DangerAssessment ==
    \E a \in DangerAssessmentArgs :
        Construct("DangerAssessment", a, DangerAssessmentInit(a))

Incident == \E a \in IncidentArgs : Construct("Incident", a, IncidentInit(a))

Note == \E a \in NoteArgs : Construct("Note", a, NoteInit(a))

\* Incident.add_url or Note.add_url on the record built last
add_url ==
    /\ rec.type \in {"Incident", "Note"}
    /\ rec.out.err = "none"
    /\ wire.stage = "none"
    /\ Len(rec.out.val.urls) < MaxUrls
    /\ \E url \in Urls : rec' = [rec EXCEPT !.out.val = AddUrl(@, url)]
    /\ UNCHANGED <<wire, dayVars, apsVars, regVars, snowVars, fnVars, boxVars, resVars>>

\* serialize on the record built last
serialize ==
    /\ rec.type \in WireTypes
    /\ rec.out.err = "none"
    /\ wire.stage = "none"
    /\ wire' = [wire EXCEPT !.stage = "serialized",
                            !.json = Serialize(rec.type, rec.out.val)]
    /\ UNCHANGED <<rec, dayVars, apsVars, regVars, snowVars, fnVars, boxVars, resVars>>

\* a wire object like the one serialize returned, without some of its keys
lose_keys ==
    /\ wire.stage = "serialized"
    /\ wire.json.err = "none"
    /\ wire.missing = {}
    /\ \E keys \in SUBSET DOMAIN wire.json.val :
          /\ keys # {}
          /\ wire' = [wire EXCEPT !.missing = keys,
                                  !.json.val = [k \in DOMAIN wire.json.val \ keys |->
                                                   wire.json.val[k]]]
    /\ UNCHANGED <<rec, dayVars, apsVars, regVars, snowVars, fnVars, boxVars, resVars>>

\* deserialize of the record's type on the wire object
deserialize ==
    /\ wire.stage = "serialized"
    /\ wire.json.err = "none"
    /\ wire' = [wire EXCEPT !.stage = "deserialized",
                            !.back = Deserialize(rec.type, wire.json.val)]
    /\ UNCHANGED <<rec, dayVars, apsVars, regVars, snowVars, fnVars, boxVars, resVars>>

----------------------------------------------------------------------------
(* Notions the claims about the records are stated with.                   *)

\* the parameters that hold an object or a list
ObjectFields ==
    {"start", "stop", "elevation", "expositions", "layers", "temperatures", "densities"}

\* the parameters that hold a text
TextFields == {"comment", "path_name", "danger_assessment", "danger_development"}

\* the parameters that say when, and have no default
WhenFields == {"date", "release_time"}

\* the argument v of the parameter f is absent or empty: None, "" or []
Absent(f, v) ==
    IF f \in ObjectFields THEN v \in {Nothing, Some(<<>>)}
    ELSE IF f \in TextFields THEN v \in {None, 0}
    ELSE v = None

\* a call none of whose arguments has content
Contentless(a) == \A f \in DOMAIN a \ WhenFields : Absent(f, a[f])

\* the latest constructor call returned a record
Built == rec.type # "none" /\ rec.out.err = "none"

\* C9: every observation constructor fails with NoObservationError when all
\* of its meaningful arguments are absent or empty, so no record without
\* content is built.
C9_ContentlessRejected ==
    (rec.type # "none" /\ Contentless(rec.args)) => rec.out.err = "NoObservationError"

\* C10: for every record r a constructor returned, deserialize(serialize(r))
\* succeeds and has r's value in every field.
C10_RoundTrip ==
    (Built /\ rec.type \in WireTypes /\ wire.stage # "none" /\ wire.missing = {}) =>
        /\ wire.json.err = "none"
        /\ wire.stage = "deserialized" =>
              (wire.back.err = "none" /\ wire.back.val = rec.out.val)

\* C12: deserialize of a wire object from which keys are missing succeeds (and
\* leaves the fields of the missing keys null); a missing key never makes it
\* fail.
C12_MissingKeysTolerated ==
    wire.stage = "deserialized" => wire.back.err = "none"

----------------------------------------------------------------------------
(* The snow registration with the records it holds, and its wire object.   *)
(* An observation attribute that holds no record is Nothing.               *)

\* SnowRegistration.GEO_HAZARD
GEO_HAZARD == 10

\* SnowRegistration.ObservationType, in the order of the images dictionary
ObservationTypes == <<10, 11, 13, 21, 22, 25, 26, 31, 32, 33, 36>>

\* the attributes of a registration that hold a list of records
ListKinds ==
    {"danger_signs", "avalanche_activities", "compression_tests", "avalanche_problems"}

\* the record type an observation attribute holds
KindType ==
    [danger_signs |-> "DangerSign", avalanche_obs |-> "AvalancheObs",
     avalanche_activities |-> "AvalancheActivity", weather |-> "Weather",
     snow_cover |-> "SnowCover", compression_tests |-> "CompressionTest",
     snow_profile |-> "SnowProfile", avalanche_problems |-> "AvalancheProblem",
     danger_assessment |-> "DangerAssessment", incident |-> "Incident", note |-> "Note"]

\* the key SnowRegistration.serialize writes an observation attribute under
KindKey ==
    [danger_signs |-> "DangerObs", avalanche_obs |-> "AvalancheObs",
     avalanche_activities |-> "AvalancheActivityObs2", weather |-> "WeatherObservation",
     snow_cover |-> "SnowSurfaceObservation", compression_tests |-> "CompressionTest",
     snow_profile |-> "SnowProfile2", avalanche_problems |-> "AvalancheEvalProblem2",
     danger_assessment |-> "AvalancheEvaluation3", incident |-> "Incident",
     note |-> "GeneralObservation"]

\* SnowRegistration.__init__
NewSnowRegistration(obs_time, position, spatial_precision, source) ==
    [any_obs |-> FALSE, obs_time |-> obs_time, position |-> position,
     spatial_precision |-> spatial_precision, source |-> source,
     danger_signs |-> <<>>, avalanche_obs |-> Nothing, avalanche_activities |-> <<>>,
     weather |-> Nothing, snow_cover |-> Nothing, compression_tests |-> <<>>,
     snow_profile |-> Nothing, avalanche_problems |-> <<>>,
     danger_assessment |-> Nothing, incident |-> Nothing, note |-> Nothing,
     images |-> [t \in {ObservationTypes[i] : i \in DOMAIN ObservationTypes} |-> <<>>]]

\* the registrations the modelled calls construct: with and without a time
\* of observation, a precision (ONE_HUNDRED) and a source (SEEN)
FreshRegistrations ==
    {NewSnowRegistration(t, [lat |-> 69, lon |-> 19], p, s) :
        t \in {None, 1}, p \in {None, 100}, s \in {None, 10}}

\* Image.__init__ of a file with the name of an image
ImageInit(direction, comment) ==
    [uuid |-> None, mime |-> 1, direction |-> direction, photographer |-> None,
     copyright_holder |-> None, comment |-> comment]

\* Image.serialize
ImageSerialize(image) ==
    Clean([AttachmentUploadId |-> image.uuid,
           Aspect |-> IF image.direction # None THEN image.direction * 45 ELSE None,
           AttachmentMimeType |-> image.mime,
           Photographer |-> image.photographer,
           Copyright |-> image.copyright_holder,
           Comment |-> image.comment],
          {"AttachmentUploadId", "Aspect", "AttachmentMimeType", "Photographer",
           "Copyright", "Comment"}, {})

\* the records the modelled calls add to a registration, by attribute; each
\* is what its constructor returns for arguments of the annotated types
Held ==
    [danger_signs |->
        <<DangerSignInit([sign |-> 3, comment |-> None]).val,
          DangerSignInit([sign |-> None, comment |-> 0]).val>>,
     avalanche_obs |->
        <<AvalancheObsInit(Merge(AvalancheObsDefaults, [release_time |-> 1])).val>>,
     avalanche_activities |->
        <<AvalancheActivityInit(Merge(AvalancheActivityDefaults, [date |-> 1])).val>>,
     weather |->
        <<WeatherInit([NoneOf(WeatherVals) EXCEPT !.wind_dir = 0]).val>>,
     snow_cover |->
        <<SnowCoverInit([NoneOf(SnowCoverVals) EXCEPT !.hn24_cm = 0]).val>>,
     compression_tests |->
        <<CompressionTestInit([NoneOf(CompressionTestVals) EXCEPT !.is_in_profile = 0]).val>>,
     snow_profile |->
        <<SnowProfileInit(SnowProfileDefaults).val>>,
     avalanche_problems |->
        <<AvalancheProblemInit([AvalancheProblemDefaults EXCEPT !.is_layer_thin = 0]).val,
          AvalancheProblemInit([AvalancheProblemDefaults EXCEPT !.weak_layer = 11]).val>>,
     danger_assessment |->
        <<DangerAssessmentInit([NoneOf(DangerAssessmentVals) EXCEPT !.danger_level = 3]).val>>,
     incident |->
        <<IncidentInit([NoneOf(IncidentVals) EXCEPT !.comment = 0]).val>>,
     note |->
        <<NoteInit([comment |-> 1]).val>>]

RECURSIVE AllImagesFrom(_, _)
\* the loop of SnowRegistration.serialize over self.images from the i-th
\* observation type on
AllImagesFrom(r, i) ==
    IF i > Len(ObservationTypes) THEN <<>>
    ELSE LET obs_type == ObservationTypes[i]
         IN  [j \in DOMAIN r.images[obs_type] |->
                 Merge(ImageSerialize(r.images[obs_type][j]),
                       [GeoHazardTID |-> GEO_HAZARD, RegistrationTID |-> obs_type])]
             \o AllImagesFrom(r, i + 1)

\* what serialize of the records under the attribute k returns or raises
KindOutcomes(r, k) ==
    IF k \in ListKinds
    THEN [i \in DOMAIN r[k] |-> Serialize(KindType[k], r[k][i])]
    ELSE IF r[k] # Nothing THEN <<Serialize(KindType[k], r[k][1])>> ELSE <<>>

\* the value SnowRegistration.serialize gives the key of the attribute k
KindJson(r, k) ==
    LET outs == KindOutcomes(r, k)
    IN  IF k \in ListKinds THEN Some([i \in DOMAIN outs |-> outs[i].val])
        ELSE IF outs # <<>> THEN Some(outs[1].val) ELSE Nothing

\* how many records and images a registration holds
Holds(r) ==
    Cardinality({k \in DOMAIN KindType \ ListKinds : r[k] # Nothing})
    + Len(r.danger_signs) + Len(r.avalanche_activities) + Len(r.compression_tests)
    + Len(r.avalanche_problems) + Len(AllImagesFrom(r, 1))

\* the attributes in the order SnowRegistration.serialize serializes them
SerializeOrder ==
    <<"avalanche_activities", "avalanche_problems", "danger_assessment", "avalanche_obs",
      "compression_tests", "danger_signs", "note", "incident", "snow_profile",
      "snow_cover", "weather">>

\* what serialize of the records under the attribute k raises, if it does
KindError(r, k) ==
    LET outs == KindOutcomes(r, k)
        bad == {i \in DOMAIN outs : outs[i].err # "none"}
    IN  IF bad = {} THEN "none"
        ELSE outs[CHOOSE i \in bad : \A j \in bad : i <= j].err

\* SnowRegistration.serialize
RegistrationSerialize(r) ==
    LET bad == {i \in DOMAIN SerializeOrder : KindError(r, SerializeOrder[i]) # "none"}
    IN  IF bad # {}
        THEN Raise(KindError(r, SerializeOrder[CHOOSE i \in bad : \A j \in bad : i <= j]),
                   Nothing)
        ELSE Ok(Clean(
                [Attachments |-> Some(AllImagesFrom(r, 1)),
                 AvalancheActivityObs2 |-> KindJson(r, "avalanche_activities"),
                 AvalancheEvalProblem2 |-> KindJson(r, "avalanche_problems"),
                 AvalancheEvaluation3 |-> KindJson(r, "danger_assessment"),
                 AvalancheObs |-> KindJson(r, "avalanche_obs"),
                 CompressionTest |-> KindJson(r, "compression_tests"),
                 DangerObs |-> KindJson(r, "danger_signs"),
                 DtObsTime |-> IF r.obs_time # None THEN Some(IsoFormat(r.obs_time))
                               ELSE Nothing,
                 GeneralObservation |-> KindJson(r, "note"),
                 GeoHazardTID |-> 10,
                 Incident |-> KindJson(r, "incident"),
                 ObsLocation |-> Some(Clean([Latitude |-> r.position.lat,
                                             Longitude |-> r.position.lon,
                                             Uncertainty |-> r.spatial_precision],
                                            {"Latitude", "Longitude", "Uncertainty"}, {})),
                 SourceTID |-> r.source,
                 SnowProfile2 |-> KindJson(r, "snow_profile"),
                 SnowSurfaceObservation |-> KindJson(r, "snow_cover"),
                 WeatherObservation |-> KindJson(r, "weather")],
                {"GeoHazardTID", "SourceTID"},
                {"Attachments", "AvalancheActivityObs2", "AvalancheEvalProblem2",
                 "CompressionTest", "DangerObs"}))

\* no registration constructed yet
NoSnow == [any_obs |-> FALSE, obs_time |-> None]

\* serialize not called yet, and nothing deserialized
NoSent == [called |-> FALSE, out |-> Ok(Nothing), got |-> FALSE, back |-> Ok(Nothing)]

InitSnow ==
    /\ snow = NoSnow
    /\ sent = NoSent

\* SnowRegistration(obs_time, position, spatial_precision, source)
SnowRegistration ==
    /\ snow = NoSnow
    /\ snow' \in FreshRegistrations
    /\ UNCHANGED <<sent, dayVars, apsVars, regVars, recVars, fnVars, boxVars, resVars>>

\* the registration is there and has not been serialized
Filling == snow # NoSnow /\ ~sent.called

\* an add_* or set_* method of SnowRegistration with a record: a list takes
\* one more, an attribute is overwritten, and add_avalanche_problem raises
\* ValueError at three
Hold ==
    /\ Filling
    /\ Holds(snow) < MaxObs
    /\ \E k \in DOMAIN Held : \E i \in DOMAIN Held[k] :
          IF k = "avalanche_problems" /\ Len(snow.avalanche_problems) >= 3
          THEN UNCHANGED snow
          ELSE snow' = [snow EXCEPT !.any_obs = TRUE,
                                    ![k] = IF k \in ListKinds THEN Append(@, Held[k][i])
                                           ELSE Some(Held[k][i])]
    /\ UNCHANGED <<sent, dayVars, apsVars, regVars, recVars, fnVars, boxVars, resVars>>

\* SnowRegistration.add_image with an observation class (DangerSign, Note)
\* as the parent
Attach ==
    /\ Filling
    /\ Holds(snow) < MaxObs
    /\ \E obs_type \in {13, 10} :
          snow' = [snow EXCEPT !.images[obs_type] = Append(@, ImageInit(None, None))]
    /\ UNCHANGED <<sent, dayVars, apsVars, regVars, recVars, fnVars, boxVars, resVars>>

\* SnowRegistration.serialize on the registration
SerializeRegistration ==
    /\ Filling
    /\ sent' = [sent EXCEPT !.called = TRUE, !.out = RegistrationSerialize(snow)]
    /\ UNCHANGED <<snow, dayVars, apsVars, regVars, recVars, fnVars, boxVars, resVars>>

\* UploadedImage.deserialize; copyright_holder and id are the one-element
\* tuples the trailing commas of the source make
UploadedImageDeserialize(json) ==
    [mime |-> Convert(json, "AttachmentMimeType"),
     direction |-> IF "Aspect" \in DOMAIN json THEN RoundDiv(json.Aspect, 45) % 8
                   ELSE None,
     photographer |-> Convert(json, "Photographer"),
     copyright_holder |-> <<Convert(json, "Copyright")>>,
     comment |-> Convert(json, "Comment"),
     id |-> <<Convert(json, "AttachmentId")>>,
     url |-> Convert(json, "Url")]

\* the attributes in the order SnowRegistration.deserialize fills them
DeserializeOrder ==
    <<"danger_signs", "avalanche_obs", "avalanche_activities", "weather", "snow_cover",
      "compression_tests", "snow_profile", "avalanche_problems", "danger_assessment",
      "incident", "note">>

\* what deserialize of the records under the key of the attribute k returns
\* or raises: _apply of a list of deserialize calls, or _deserialize_to
BackOutcomes(json, k) ==
    IF KindKey[k] \notin DOMAIN json THEN <<>>
    ELSE IF k \in ListKinds
    THEN [i \in DOMAIN json[KindKey[k]] |-> Deserialize(KindType[k], json[KindKey[k]][i])]
    ELSE <<Deserialize(KindType[k], json[KindKey[k]])>>

\* the value SnowRegistration.deserialize gives the attribute k; a list
\* attribute whose key is missing is None, written as the empty sequence
BackValue(json, k) ==
    LET outs == BackOutcomes(json, k)
    IN  IF k \in ListKinds THEN [i \in DOMAIN outs |-> outs[i].val]
        ELSE IF outs # <<>> THEN Some(outs[1].val) ELSE Nothing

\* what deserialize of the records under the key of the attribute k raises
BackError(json, k) ==
    LET outs == BackOutcomes(json, k)
        bad == {i \in DOMAIN outs : outs[i].err # "none"}
    IN  IF bad = {} THEN "none"
        ELSE outs[CHOOSE i \in bad : \A j \in bad : i <= j].err

\* the images dictionary SnowRegistration.deserialize builds from Attachments
BackImages(json) ==
    LET all == IF "Attachments" \in DOMAIN json THEN json.Attachments ELSE <<>>
        of(t) == SelectSeq(all, LAMBDA image : Convert(image, "RegistrationTID") = t)
    IN  [t \in {Convert(all[i], "RegistrationTID") : i \in DOMAIN all} |->
            [j \in DOMAIN of(t) |-> UploadedImageDeserialize(of(t)[j])]]

\* SnowRegistration.deserialize: cls(obs_time, position, spatial_precision,
\* source), then each observation attribute assigned from its key
RegistrationDeserialize(json) ==
    LET bad == {i \in DOMAIN DeserializeOrder :
                    BackError(json, DeserializeOrder[i]) # "none"}
        fresh == NewSnowRegistration(
                   IF "DtObsTime" \in DOMAIN json THEN FromIsoFormat(json.DtObsTime)
                   ELSE None,
                   [lat |-> json.ObsLocation.Latitude, lon |-> json.ObsLocation.Longitude],
                   Convert(json.ObsLocation, "Uncertainty"),
                   Convert(json, "SourceTID"))
    IN  IF bad # {}
        THEN Raise(BackError(json, DeserializeOrder[CHOOSE i \in bad : \A j \in bad : i <= j]),
                   Nothing)
        ELSE Ok([k \in DOMAIN fresh |->
                    IF k \in DOMAIN KindType THEN BackValue(json, k)
                    ELSE IF k = "images" THEN BackImages(json)
                    ELSE fresh[k]])

\* SnowRegistration.deserialize on the wire object serialize returned
DeserializeRegistration ==
    /\ sent.called
    /\ ~sent.got
    /\ sent.out.err = "none"
    /\ sent' = [sent EXCEPT !.got = TRUE, !.back = RegistrationDeserialize(sent.out.val)]
    /\ UNCHANGED <<snow, dayVars, apsVars, regVars, recVars, fnVars, boxVars, resVars>>

----------------------------------------------------------------------------
(* Notions the claims about the registration's wire object are stated with. *)

\* the observation attributes of a registration that hold a record
PresentKinds(r) ==
    {k \in DOMAIN KindType : IF k \in ListKinds THEN r[k] # <<>> ELSE r[k] # Nothing}

\* the keys of the wire object that stand for an observation attribute
KindKeys == {KindKey[k] : k \in DOMAIN KindKey}

\* the keys the wire object of the registration is to have
ExpectedKeys(r) ==
    {"GeoHazardTID", "ObsLocation"}
    \cup (IF r.obs_time # None THEN {"DtObsTime"} ELSE {})
    \cup (IF r.source # None THEN {"SourceTID"} ELSE {})
    \cup (IF AllImagesFrom(r, 1) # <<>> THEN {"Attachments"} ELSE {})
    \cup {KindKey[k] : k \in PresentKinds(r)}

\* the registration holds DangerSign(WHUMPF_SOUND) and no other record
OnlyWhumpf(r) ==
    /\ PresentKinds(r) = {"danger_signs"}
    /\ r.danger_signs = <<Held.danger_signs[1]>>

\* C11: SnowRegistration.serialize returns a mapping without a null or an
\* empty list, whose keys are GeoHazardTID (10), ObsLocation, DtObsTime and
\* SourceTID when set, Attachments when an image is attached, and one key for
\* each observation attribute that holds a record; a registration holding
\* only DangerSign(WHUMPF_SOUND) has DangerObs = [{DangerSignTID: 3}] and no
\* other observation key.
C11_SerializeKeys ==
    sent.called =>
        /\ sent.out.err = "none"
        /\ DOMAIN sent.out.val = ExpectedKeys(snow)
        /\ sent.out.val.GeoHazardTID = 10
        /\ \A k \in DOMAIN sent.out.val \cap {"GeoHazardTID", "SourceTID"} :
              sent.out.val[k] # None
        /\ \A k \in DOMAIN sent.out.val \cap (KindKeys \cup {"Attachments"}) :
              sent.out.val[k] # <<>>
        /\ OnlyWhumpf(snow) =>
              /\ sent.out.val.DangerObs = <<[DangerSignTID |-> 3]>>
              /\ DOMAIN sent.out.val \cap KindKeys = {"DangerObs"}

\* serialize was called on a registration without time and source that holds
\* only DangerSign(WHUMPF_SOUND), with an image attached
C11_Witness ==
    /\ sent.called
    /\ OnlyWhumpf(snow)
    /\ snow.obs_time = None
    /\ snow.source = None
    /\ AllImagesFrom(snow, 1) # <<>>

\* the registration holds at least one observation: a singleton that is not
\* null or a list that is not empty
HoldsObservation(r) == PresentKinds(r) # {}

\* C23: any_obs of a registration is true exactly when it holds at least one
\* observation, whether it was constructed and filled by add_*, set_* and
\* add_image or returned by SnowRegistration.deserialize.
C23_AnyObsIffHolds ==
    /\ snow # NoSnow => (snow.any_obs <=> HoldsObservation(snow))
    /\ (sent.got /\ sent.back.err = "none") =>
          (sent.back.val.any_obs <=> HoldsObservation(sent.back.val))

----------------------------------------------------------------------------
(* Enumerated fields on receipt. An enumeration member and the plain       *)
(* integer of the same code compare equal in Python and differ in type, so *)
(* a received value carries its kind: a member of the enumeration, a plain *)
(* int, or None.                                                           *)

Member(code) == [kind |-> "member", code |-> code]
RawInt(code) == [kind |-> "int", code |-> code]
Null == [kind |-> "None", code |-> None]

\* the codes of the enumerations that deserialize converts to
Vocabulary ==
    "DangerSign.Sign" :> {1, 2, 3, 4, 5, 7, 8, 9, 99} @@
    "DestructiveSize" :> {1, 2, 3, 4, 5, 9} @@
    "AvalancheObs.Type" :> {10, 11, 12, 20, 21, 22, 27, 30, 40, 99} @@
    "AvalancheObs.Trigger" :> {10, 22, 23, 25, 26, 27, 99} @@
    "AvalancheObs.Terrain" :> {10, 20, 30, 40, 50, 60, 70, 75, 95, 99} @@
    "WeakLayer" :> {10, 11, 13, 14, 15, 16, 18, 19, 20, 22, 24} @@
    "AvalancheActivity.Quantity" :> {1, 2, 3, 4, 5} @@
    "AvalancheActivity.Type" :> {10, 15, 20, 25, 27, 30, 40} @@
    "Sensitivity" :> {22, 30, 40, 50, 60} @@
    "Distribution" :> {1, 2, 3} @@
    "Weather.Precipitation" :> {1, 2, 3, 4, 5, 6, 8} @@
    "SnowCover.Drift" :> {1, 2, 3, 4} @@
    "SnowCover.Surface" :> {50, 61, 62, 101, 102, 103, 104, 105, 106, 107, 108} @@
    "SnowCover.Moisture" :> {1, 2, 3, 4, 5, 6} @@
    "CompressionTest.TestResult" :> {5, 11, 12, 13, 14, 15, 21, 22, 23, 24} @@
    "CompressionTest.FractureQuality" :> {1, 2, 3} @@
    "CompressionTest.Stability" :> {1, 2, 3} @@
    "SnowProfile.Hardness" :> {1, 2, 3, 4, 5, 6, 7, 8, 9, 10, 11, 12, 13, 14, 15, 16, 17, 18, 19, 20, 21} @@
    "SnowProfile.GrainForm" :> {1, 2, 3, 4, 5, 6, 7, 8, 9, 10, 11, 12, 13, 14, 15, 16, 17, 18, 19, 20, 21, 22, 23, 24, 25, 26, 27, 28, 29, 30, 31, 32, 33, 34, 35, 36, 37, 38, 40, 41, 42, 43, 44, 45, 46} @@
    "SnowProfile.Wetness" :> {1, 2, 3, 4, 5, 6, 7, 8, 9} @@
    "SnowProfile.CriticalLayer" :> {11, 12, 13} @@
    "AvalancheProblem.LayerDepth" :> {1, 2, 3} @@
    "AvalancheProblem.Type" :> {10, 15, 20, 25} @@
    "DangerAssessment.DangerLevel" :> {1, 2, 3, 4, 5} @@
    "DangerAssessment.ForecastEvaluation" :> {1, 2, 3} @@
    "Incident.Activity" :> {111, 112, 113, 114, 115, 116, 117, 120, 130, 140, 160, 190} @@
    "Incident.Extent" :> {10, 13, 15, 20, 25, 27, 28, 30, 40, 99} @@
    "Elevation.Format" :> {1, 2, 3, 4}

\* every cls._convert(json, key, <enumeration>) of the observation records'
\* deserialize
EnumFields == {
    [type |-> "DangerSign", key |-> "DangerSignTID", enum |-> "DangerSign.Sign"],
    [type |-> "AvalancheObs", key |-> "DestructiveSizeTID", enum |-> "DestructiveSize"],
    [type |-> "AvalancheObs", key |-> "AvalancheTID", enum |-> "AvalancheObs.Type"],
    [type |-> "AvalancheObs", key |-> "AvalancheTriggerTID", enum |-> "AvalancheObs.Trigger"],
    [type |-> "AvalancheObs", key |-> "TerrainStartZoneTID", enum |-> "AvalancheObs.Terrain"],
    [type |-> "AvalancheObs", key |-> "AvalCauseTID", enum |-> "WeakLayer"],
    [type |-> "AvalancheActivity", key |-> "EstimatedNumTID", enum |-> "AvalancheActivity.Quantity"],
    [type |-> "AvalancheActivity", key |-> "AvalancheExtTID", enum |-> "AvalancheActivity.Type"],
    [type |-> "AvalancheActivity", key |-> "AvalTriggerSimpleTID", enum |-> "Sensitivity"],
    [type |-> "AvalancheActivity", key |-> "DestructiveSizeTID", enum |-> "DestructiveSize"],
    [type |-> "AvalancheActivity", key |-> "AvalPropagationTID", enum |-> "Distribution"],
    [type |-> "Weather", key |-> "PrecipitationTID", enum |-> "Weather.Precipitation"],
    [type |-> "SnowCover", key |-> "SnowDriftTID", enum |-> "SnowCover.Drift"],
    [type |-> "SnowCover", key |-> "SnowSurfaceTID", enum |-> "SnowCover.Surface"],
    [type |-> "SnowCover", key |-> "SurfaceWaterContentTID", enum |-> "SnowCover.Moisture"],
    [type |-> "CompressionTest", key |-> "PropagationTID", enum |-> "CompressionTest.TestResult"],
    [type |-> "CompressionTest", key |-> "ComprTestFractureTID", enum |-> "CompressionTest.FractureQuality"],
    [type |-> "CompressionTest", key |-> "StabilityEvalTID", enum |-> "CompressionTest.Stability"],
    [type |-> "SnowProfile.Layer", key |-> "HardnessTID", enum |-> "SnowProfile.Hardness"],
    [type |-> "SnowProfile.Layer", key |-> "GrainFormPrimaryTID", enum |-> "SnowProfile.GrainForm"],
    [type |-> "SnowProfile.Layer", key |-> "WetnessTID", enum |-> "SnowProfile.Wetness"],
    [type |-> "SnowProfile.Layer", key |-> "HardnessBottomTID", enum |-> "SnowProfile.Hardness"],
    [type |-> "SnowProfile.Layer", key |-> "GrainFormSecondaryTID", enum |-> "SnowProfile.GrainForm"],
    [type |-> "SnowProfile.Layer", key |-> "CriticalLayerTID", enum |-> "SnowProfile.CriticalLayer"],
    [type |-> "AvalancheProblem", key |-> "AvalCauseTID", enum |-> "WeakLayer"],
    [type |-> "AvalancheProblem", key |-> "AvalCauseDepthTID", enum |-> "AvalancheProblem.LayerDepth"],
    [type |-> "AvalancheProblem", key |-> "AvalancheExtTID", enum |-> "AvalancheProblem.Type"],
    [type |-> "AvalancheProblem", key |-> "AvalTriggerSimpleTID", enum |-> "Sensitivity"],
    [type |-> "AvalancheProblem", key |-> "DestructiveSizeTID", enum |-> "DestructiveSize"],
    [type |-> "AvalancheProblem", key |-> "AvalPropagationTID", enum |-> "Distribution"],
    [type |-> "DangerAssessment", key |-> "AvalancheDangerTID", enum |-> "DangerAssessment.DangerLevel"],
    [type |-> "DangerAssessment", key |-> "ForecastCorrectTID", enum |-> "DangerAssessment.ForecastEvaluation"],
    [type |-> "Incident", key |-> "ActivityInfluencedTID", enum |-> "Incident.Activity"],
    [type |-> "Incident", key |-> "DamageExtentTID", enum |-> "Incident.Extent"],
    [type |-> "Elevation", key |-> "ExposedHeightComboTID", enum |-> "Elevation.Format"] }

\* target(elem) of an IntEnum: the member of that value, ValueError if none
EnumOf(enum, elem) ==
    IF elem \in Vocabulary[enum] THEN Ok(Member(elem)) ELSE Raise("ValueError", Null)

\* _convert that reports the value error to the caller
ConvertEnum_NoFallback(json, idx, enum) ==
    LET elem == IF idx \in DOMAIN json THEN json[idx] ELSE None
    IN  IF elem # None THEN EnumOf(enum, elem) ELSE Ok(Null)

\* Deserializable._convert with an enumeration as the target and int as
\* target_sec
ConvertEnum(json, idx, enum) ==
    LET elem == IF idx \in DOMAIN json THEN json[idx] ELSE None
        strict == IF elem # None THEN EnumOf(enum, elem) ELSE Ok(Null)
    IN  IF strict.err = "ValueError" THEN Ok(RawInt(elem)) ELSE strict

\* the enumerated field f as the deserialize of its record type sets it;
\* DangerSign.deserialize replaces a sign equal to 0 by None
DeserializeEnumField(f, json) ==
    LET got == ConvertEnum(json, f.key, f.enum)
    IN  IF f.type = "DangerSign" /\ got.err = "none" /\ got.val.code = 0
        THEN Ok(Null)
        ELSE got

\* no call yet
NoFn == [name |-> "none", args |-> <<>>, out |-> Ok(Nothing)]

InitFn == fn = NoFn

\* the wire codes tried
Codes == 0 .. MaxCode

\* deserialize of a record type on a wire object whose key of one enumerated
\* field holds a code
deserialize_enum ==
    /\ fn = NoFn
    /\ \E f \in EnumFields, code \in Codes :
          fn' = [name |-> "deserialize_enum", args |-> <<f, code>>,
                 out |-> DeserializeEnumField(f, f.key :> code)]
    /\ UNCHANGED <<dayVars, apsVars, regVars, recVars, snowVars, boxVars, resVars>>

\* the call, if it is a deserialize of an enumerated field
EnumCall == fn.name = "deserialize_enum"
EnumField == fn.args[1]
EnumCode == fn.args[2]
Known == EnumCode \in Vocabulary[EnumField.enum]

----------------------------------------------------------------------------
(* Elevation bands.                                                        *)

\* the thresholds tried: every metre up to MaxElev, and some higher ones up to
\* and past the top of the range
Thresholds == (0 .. MaxElev) \cup {650, 733, 750, 1260, 4750, 4808, 4809}

\* Elevation(elev_fmt, elev, elev_secondary)
Elevation ==
    /\ fn = NoFn
    /\ \E elev_fmt \in {ABOVE, BELOW, SANDWICH, MIDDLE}, elev \in Thresholds,
          elev_secondary \in Thresholds \cup {None} :
          fn' = [name |-> "Elevation", args |-> <<elev_fmt, elev, elev_secondary>>,
                 out |-> ElevationInit(elev_fmt, elev, elev_secondary)]
    /\ UNCHANGED <<dayVars, apsVars, regVars, recVars, snowVars, boxVars, resVars>>

\* the call is an Elevation with two thresholds in range, of a format that
\* takes two
TwoThresholds ==
    /\ fn.name = "Elevation"
    /\ fn.args[1] \in {SANDWICH, MIDDLE}
    /\ fn.args[2] \in 0 .. 4808
    /\ fn.args[3] \in 0 .. 4808

\* v is a multiple of 100 and no multiple of 100 is nearer to x
NearestHundred(v, x) == v % 100 = 0 /\ v - x <= 50 /\ x - v <= 50

\* C14: an Elevation built from two thresholds in [0, 4808] has elev_max and
\* elev_min equal to the larger and the smaller threshold, each rounded to the
\* nearest 100; when both round to the same value elev_min is that value minus
\* 100; so elev_min < elev_max; thresholds 733 and 1260 give 700 and 1300.
C14_ElevationRounded ==
    TwoThresholds =>
        /\ fn.out.err = "none"
        /\ LET e == fn.out.val[1]
               hi == Max(fn.args[2], fn.args[3])
               lo == Min(fn.args[2], fn.args[3])
           IN  /\ e.format = fn.args[1]
               /\ NearestHundred(e.elev_max, hi)
               /\ \/ NearestHundred(e.elev_min, lo) /\ e.elev_min # e.elev_max
                  \/ NearestHundred(e.elev_max, lo) /\ e.elev_min = e.elev_max - 100
               /\ e.elev_min < e.elev_max
               /\ (hi = 1260 /\ lo = 733) => (e.elev_max = 1300 /\ e.elev_min = 700)

\* two thresholds that round to the same hundred, and the band that came of
\* them
C14_Witness ==
    /\ TwoThresholds
    /\ fn.args = <<MIDDLE, 120, 80>>
    /\ fn.out.val[1].elev_max = 100
    /\ fn.out.val[1].elev_min = 0

----------------------------------------------------------------------------
(* Expositions on the wire.                                                *)

\* the lists of directions tried: in any order, with repetitions
DirectionLists == UNION {[1..n -> Directions] : n \in 0..MaxDirs}

\* the strings of "0" and "1" tried, up to MaxChars characters
BitStrings == UNION {[1..n -> {0, 1}] : n \in 0..MaxChars}

\* Expositions(expositions).serialize()
serialize_expositions ==
    /\ fn = NoFn
    /\ \E expositions \in DirectionLists :
          fn' = [name |-> "Expositions.serialize", args |-> <<expositions>>,
                 out |-> Ok(ExpositionsSerialize(expositions))]
    /\ UNCHANGED <<dayVars, apsVars, regVars, recVars, snowVars, boxVars, resVars>>

\* Expositions.deserialize(json) of the string serialize returned (args[2]
\* keeps the list it was made from) or of another string
deserialize_expositions ==
    /\ \/ /\ fn.name = "Expositions.serialize"
          /\ fn' = [name |-> "Expositions.deserialize",
                    args |-> <<fn.out.val, Some(fn.args[1])>>,
                    out |-> ExpositionsDeserialize(fn.out.val)]
       \/ /\ fn = NoFn
          /\ \E json \in BitStrings :
                fn' = [name |-> "Expositions.deserialize", args |-> <<json, Nothing>>,
                       out |-> ExpositionsDeserialize(json)]
    /\ UNCHANGED <<dayVars, apsVars, regVars, recVars, snowVars, boxVars, resVars>>

\* the elements of a list
Range(s) == {s[i] : i \in DOMAIN s}

\* s is in strictly ascending order
InCompassOrder(s) == \A i, j \in DOMAIN s : i < j => s[i] < s[j]

\* C15: Expositions.serialize returns a string of exactly 8 characters whose
\* character at index d is "1" exactly when direction d is in the list (the
\* string's index d is position d + 1 of the sequence); deserialize of that
\* string returns those directions in ascending order; deserialize of a
\* string longer than 8 characters fails.
C15_ExpositionString ==
    /\ fn.name = "Expositions.serialize" =>
          /\ fn.out.err = "none"
          /\ Len(fn.out.val) = 8
          /\ \A d \in Directions : fn.out.val[d + 1] = 1 <=> d \in Range(fn.args[1])
    /\ (fn.name = "Expositions.deserialize" /\ fn.args[2] # Nothing) =>
          /\ fn.out.err = "none"
          /\ Range(fn.out.val[1]) = Range(fn.args[2][1])
          /\ InCompassOrder(fn.out.val[1])
    /\ (fn.name = "Expositions.deserialize" /\ Len(fn.args[1]) > 8) =>
          fn.out.err # "none"

\* [E, N] was serialized and came back as [N, E]
C15_Witness ==
    /\ fn.name = "Expositions.deserialize"
    /\ fn.args[2] = Some(<<2, 0>>)
    /\ fn.out = Ok(Some(<<0, 2>>))

----------------------------------------------------------------------------
(* The taps of a compression test.                                         *)

\* CompressionTest.TestResult
TestResults == {ECTPV, 22, 23, ECTX, LBT, CTV, 12, 13, 14, CTN}

\* CompressionTest(test_result=..., number_of_taps=...), the other parameters
\* left at None
CompressionTestTaps ==
    /\ fn = NoFn
    /\ \E test_result \in TestResults \cup {None}, number_of_taps \in (0 .. MaxTaps) \cup {None} :
          fn' = [name |-> "CompressionTest", args |-> <<test_result, number_of_taps>>,
                 out |-> CompressionTestInit(
                             [NoneOf(CompressionTestVals) EXCEPT
                                 !.test_result = test_result,
                                 !.number_of_taps = number_of_taps])]
    /\ UNCHANGED <<dayVars, apsVars, regVars, recVars, snowVars, boxVars, resVars>>

\* the call is a CompressionTest with a tap count
TapsGiven == fn.name = "CompressionTest" /\ fn.args[2] # None

\* C16: with a tap count given, construction fails unless 0 < number_of_taps
\* <= 30; for the no-taps results ECTPV, LBT, CTV and the all-taps results
\* ECTX, CTN it fails for every tap count other than 0 or 30; ECTX with 30
\* taps succeeds and ECTX with 15 taps fails.
C16_TapsValidated ==
    TapsGiven =>
        /\ ~(0 < fn.args[2] /\ fn.args[2] <= 30) => fn.out.err # "none"
        /\ (fn.args[1] \in {ECTPV, LBT, CTV, ECTX, CTN} /\ fn.args[2] \notin {0, 30}) =>
              fn.out.err # "none"
        /\ fn.args = <<ECTX, 30>> => fn.out.err = "none"
        /\ fn.args = <<ECTX, 15>> => fn.out.err = "ValueError"

\* ECTX with 30 taps was built
C16_Witness ==
    /\ TapsGiven
    /\ fn.args = <<ECTX, 30>>
    /\ fn.out.err = "none"
    /\ fn.out.val.number_of_taps = 30

----------------------------------------------------------------------------
(* A container at work: a Timeline that is set into, sliced, selected from *)
(* and merged.  A date is modelled by its ordinal, 1 .. MaxKey.            *)

BoxKeys == 1 .. MaxKey

\* a Day of a date without levels
EmptyDay(date) == [NewDay EXCEPT !.date = date, !.region = TROMSO]

\* the days put under a date: a Day without levels, and that date's day of a
\* precipitation response
BoxDays(date) == {EmptyDay(date), DayDeserialize(DayJson(date, TROMSO, 1), "precip")}

\* the days of a date the timelines given to assimilate hold: a Day without
\* levels, and that date's day of a temperature response
OtherDays(date) == {EmptyDay(date), DayDeserialize(DayJson(date, TROMSO, 1), "temp")}

\* Container.__getitem__ with a slice: the entries the loop keeps, then _sort
\* and _filter_empty
GetSlice(elems, start, stop) ==
    LET kept(e) ==
            \/ Truthy(start) /\ Truthy(stop) /\ start <= e.key /\ e.key < stop
            \/ Truthy(start) /\ ~Truthy(stop) /\ start <= e.key
            \/ Truthy(stop) /\ ~Truthy(start) /\ e.key < stop
    IN  FilterEmpty(Sort(SelectSeq(elems, kept)))

RECURSIVE GetList(_, _)
\* Container.__getitem__ with a list of keys: the dict comprehension takes the
\* keys in the list's order, a repeated key once
GetList(elems, key) ==
    IF key = <<>> THEN NewContainer
    ELSE LET front == GetList(elems, SubSeq(key, 1, Len(key) - 1))
             k == key[Len(key)]
         IN  IF Contains(elems, k) /\ ~Contains(front, k)
             THEN SetItem(front, k, GetItem(elems, k))
             ELSE front

\* the timelines given to assimilate: one day, or a day of a temperature
\* response and then a Day without levels under another date
OtherTimelines ==
    UNION {{[NewTimeline EXCEPT !.elems = SetItem(NewContainer, k, d)] : d \in OtherDays(k)} :
              k \in BoxKeys}
    \cup {[NewTimeline EXCEPT
              !.elems = SetItem(SetItem(NewContainer, k[1],
                                        DayDeserialize(DayJson(k[1], TROMSO, 1), "temp")),
                                k[2], EmptyDay(k[2]))] :
            k \in {p \in BoxKeys \X BoxKeys : p[1] # p[2]}}

NoTook == [op |-> "none", self |-> NewTimeline, args |-> <<>>, out |-> Ok(NewTimeline)]

InitBox ==
    /\ box = NewTimeline
    /\ took = NoTook

\* container[key] = child
SetChild ==
    \E key \in BoxKeys : \E child \in BoxDays(key) :
        /\ box' = [box EXCEPT !.elems = SetItem(@, key, child)]
        /\ took' = [op |-> "set", self |-> box, args |-> <<key>>, out |-> Ok(box')]
        /\ UNCHANGED <<dayVars, apsVars, regVars, recVars, snowVars, fnVars, resVars>>

\* container = container[start:stop]
Slice ==
    \E start \in BoxKeys \cup {None}, stop \in (BoxKeys \cup {MaxKey + 1}) \cup {None} :
        /\ box' = [NewTimeline EXCEPT !.elems = GetSlice(box.elems, start, stop)]
        /\ took' = [op |-> "slice", self |-> box, args |-> <<start, stop>>, out |-> Ok(box')]
        /\ UNCHANGED <<dayVars, apsVars, regVars, recVars, snowVars, fnVars, resVars>>

\* container = container[[key, ...]]
Select ==
    \E key \in UNION {[1..n -> BoxKeys] : n \in 0..2} :
        /\ box' = [NewTimeline EXCEPT !.elems = GetList(box.elems, key)]
        /\ took' = [op |-> "select", self |-> box, args |-> <<key>>, out |-> Ok(box')]
        /\ UNCHANGED <<dayVars, apsVars, regVars, recVars, snowVars, fnVars, resVars>>

\* container = container.assimilate(other): an exception leaves it as it was
AssimilateBox ==
    \E other \in OtherTimelines :
        LET out == TimelineAssimilate(box, other)
        IN  /\ box' = IF out.err = "none" THEN out.val ELSE box
            /\ took' = [op |-> "assimilate", self |-> box, args |-> <<other>>, out |-> out]
            /\ UNCHANGED <<dayVars, apsVars, regVars, recVars, snowVars, fnVars, resVars>>

\* the entries of elems whose key is within the bounds given
Within(elems, start, stop) ==
    {e \in Entries(elems) : (start = None \/ start <= e.key) /\ (stop = None \/ e.key < stop)}

\* C17: container[start:stop] returns a new container of the same type that
\* holds exactly the entries whose key k has start <= k < stop, an omitted
\* bound being no bound (so container[:] holds every entry), in ascending key
\* order.
C17_SliceHalfOpen ==
    took.op = "slice" =>
        /\ took.out.err = "none"
        /\ DOMAIN took.out.val = DOMAIN took.self
        /\ Entries(took.out.val.elems) = Within(took.self.elems, took.args[1], took.args[2])
        /\ Len(took.out.val.elems) = Cardinality(Keys(took.out.val.elems))
        /\ Ascending(took.out.val.elems)

\* C18: after any sequence of set, slice, select and assimilate operations,
\* iterating the container yields its children in ascending key order.
C18_IterationAscending == Ascending(box.elems)

\* C19: the container slice returns and the container assimilate returns
\* hold no falsy child (a day with no populated level).
C19_NoFalsyChild ==
    (took.op \in {"slice", "assimilate"} /\ took.out.err = "none") =>
        \A e \in Entries(took.out.val.elems) : DayBool(e.elem)

----------------------------------------------------------------------------
(* The wind side of Day.assimilate.                                        *)

\* the floors and roofs of a day's levels
Bands(day) == [p \in 1..Len(day.levels) |-> <<day.levels[p].floor, day.levels[p].roof>>]

\* the rounds of the latest call in which a level of the pair carried wind
WindRounds ==
    {i \in Rounds(dres.self, dres.other) : WindPick(dres.self, dres.other, i).carried}

\* C20: when Day.assimilate merges a level pair of which one side carries
\* wind, the wind level it selects has its floor below the midpoint of the
\* other side's band, every wind level it walked back over has its floor at or
\* above that midpoint, the merged level has the floor and roof of the other
\* side's band, and the levels of the wind day keep their floor and roof.
C20_WindBandSelected ==
    dres.called =>
        /\ dres.out.err = "none" =>
              \A i \in WindRounds :
                 LET pick == WindPick(dres.self, dres.other, i)
                     band == pick.nowind_l
                     wind_l == pick.wind.levels[pick.walk.val]
                     merged == dres.out.val.levels[i + 1]
                 IN  /\ pick.walk.err = "none"
                     /\ 2 * (wind_l.floor - band.floor) < band.roof - band.floor
                     /\ \A p \in (pick.walk.val + 1)..(pick.wind_i + 1) :
                           2 * (pick.wind.levels[p].floor - band.floor) >= band.roof - band.floor
                     /\ merged.floor = band.floor
                     /\ merged.roof = band.roof
        /\ Bands(dres.left.self) = Bands(dres.self)
        /\ Bands(dres.left.other) = Bands(dres.other)

\* a merge in which the walk stepped back from the wind level above the
\* treeline to the one below, and gave it another floor and roof
C20_Witness ==
    /\ dres.called
    /\ dres.out.err = "none"
    /\ \E i \in WindRounds :
          LET pick == WindPick(dres.self, dres.other, i)
          IN  /\ pick.walk.val < pick.wind_i + 1
              /\ dres.out.val.levels[i + 1].data["wind"] # None
              /\ dres.out.val.levels[i + 1].floor # pick.wind.levels[pick.walk.val].floor

----------------------------------------------------------------------------
(* The boundaries of merged levels.                                        *)

\* the levels given to Level.assimilate: a floor, roof and index each absent
\* or set (a floor of 0 among them), no weather data
BoundaryLevels ==
    {[NewLevel EXCEPT !.floor = f, !.roof = r, !.index = x] :
        f \in {None, 0, 300}, r \in {None, 500, 1000}, x \in {None, 1, 2}}

\* level.assimilate(other) of two such levels
AssimilateLevels ==
    /\ fn = NoFn
    /\ \E self \in BoundaryLevels, other \in BoundaryLevels :
          fn' = [name |-> "Level.assimilate", args |-> <<self, other>>,
                 out |-> LevelAssimilate(self, other)]
    /\ UNCHANGED <<dayVars, apsVars, regVars, recVars, snowVars, boxVars, resVars>>

\* the larger of two values when both are there, else the one that is there
LargerOrPresent(a, b) ==
    IF a # None /\ b # None THEN Max(a, b) ELSE IF a # None THEN a ELSE b

\* C21: in Level.assimilate each of floor, roof and index of the merged level
\* is the larger of the two values when both levels have one, and otherwise
\* the value of the level that has one, also when that value is 0.
C21_BoundaryLargerOrPresent ==
    fn.name = "Level.assimilate" =>
        /\ fn.out.err = "none"
        /\ fn.out.val.floor = LargerOrPresent(fn.args[1].floor, fn.args[2].floor)
        /\ fn.out.val.roof = LargerOrPresent(fn.args[1].roof, fn.args[2].roof)
        /\ fn.out.val.index = LargerOrPresent(fn.args[1].index, fn.args[2].index)

----------------------------------------------------------------------------
(* The walk over the wind levels.                                          *)

\* of the two days of the latest call, one holds wind and the other does not
WindAndNoWind ==
    /\ dres.called
    /\ dres.self.date = dres.other.date
    /\ dres.self.region = dres.other.region
    /\ ("wind" \in DaySlots(dres.self)) # ("wind" \in DaySlots(dres.other))

\* C28: in Day.assimilate of a wind day and a non-wind day of one date and
\* region the backward walk over the wind levels ends, never steps before the
\* first wind level, and never fails on the band arithmetic, also for a top
\* band without a roof.
C28_WalkEndsWithinLevels ==
    WindAndNoWind =>
        \A i \in WindRounds :
            LET pick == WindPick(dres.self, dres.other, i)
            IN  /\ pick.walk.err = "none"
                /\ pick.walk.val <= pick.wind_i + 1

----------------------------------------------------------------------------
(* The dates of the days in a timeline.                                    *)

\* every day of every timeline of an Aps is stored under its own date
OwnDates(aps) ==
    \A t \in Entries(aps.elems) : \A e \in Entries(t.elem.elems) : e.elem.date = e.key

\* C29: every Day that Timeline.deserialize stores in a timeline is stored
\* under its own date, timeline[d].date = d, for wind and other data alike,
\* and after any sequence of assimilate calls.
C29_DaysUnderOwnDate ==
    /\ OwnDates(ax)
    /\ OwnDates(ay)
    /\ (ares.called /\ ares.out.err = "none") => OwnDates(ares.out.val)

----------------------------------------------------------------------------
(* The range of an elevation band.                                         *)

\* C30: every Elevation the constructor accepts has elev_max, and elev_min
\* when there is one, within 0 .. 4808; elev_min is never negative.
C30_ElevationWithinRange ==
    (fn.name = "Elevation" /\ fn.out.err = "none") =>
        LET e == fn.out.val[1]
        IN  /\ 0 <= e.elev_max /\ e.elev_max <= 4808
            /\ e.elev_min # None => (0 <= e.elev_min /\ e.elev_min <= 4808)

----------------------------------------------------------------------------
(* The uploads of Connection.submit.                                       *)

\* every image of the registration has been uploaded and has its uuid
AllUploaded ==
    /\ sub.uploads = Len(reg.images)
    /\ \A i \in 1..Len(reg.images) : reg.images[i] # None

\* C24: Connection.submit posts the registration only after every image has
\* been uploaded with a 200 response and has its uuid; when an upload is
\* answered with another status, submit raises ApiError and the registration
\* is never posted.
C24_PostedAfterUploads ==
    /\ (sub.pc \in {"post", "get"} \/ sub.posted > 0) => AllUploaded
    /\ (sub.pc = "done" /\ sub.uploads > 0 /\ reg.images[sub.uploads] = None) =>
          (sub.err = "ApiError" /\ sub.posted = 0)

\* a registration with an image was posted
C24_Witness ==
    /\ sub.posted > 0
    /\ reg.images # <<>>
    /\ AllUploaded

----------------------------------------------------------------------------
(* The re-authentication of Connection.submit.                             *)

\* C25: Connection.submit re-authenticates at most once, whatever lifetime
\* the auth server grants, and then goes on to the check of any_obs and the
\* uploads; it never re-authenticates in a chain without end.
C25_ReauthAtMostOnce ==
    /\ sub.reauths <= 1
    /\ sub.err # "RecursionError"
    /\ (sub.reauths = 1 /\ sub.pc # "authenticate" /\ sub.err \notin {"KeyError", "ApiError"}) =>
          \/ sub.pc \in {"upload", "post", "get"}
          \/ sub.pc = "done" /\ (sub.err = "NoObservationError" \/ sub.uploads + sub.posted > 0)

----------------------------------------------------------------------------
(* The problem series of a forecast. A series is a function from its index *)
(* to its values, a null or NaN value being None; a problem type is named  *)
(* by its code.                                                            *)

\* VarsomAvalancheProblem.Type
ProblemTypes == {3, 5, 7, 10, 30, 45, 50}

\* the longest problem list of a modelled forecast
MaxProblems == 2

\* VarsomDeserializable._convert: a falsy element is None
VarsomConvert(json, idx) ==
    IF idx \in DOMAIN json /\ json[idx] \notin {None, 0} THEN json[idx] ELSE None

\* AvalancheProblem.deserialize of varsom.py
VarsomProblemDeserialize(json) ==
    LET type == VarsomConvert(json, "AvalancheProblemTypeId")
        expositions == IF "ValidExpositions" \in DOMAIN json
                       THEN ExpositionsDeserialize(json.ValidExpositions).val
                       ELSE Nothing
    IN  [type |-> IF type # 37 THEN type ELSE 30,
         size |-> VarsomConvert(json, "DestructiveSizeId"),
         sensitivity |-> VarsomConvert(json, "AvalTriggerSimpleId"),
         distribution |-> VarsomConvert(json, "AvalPropagationId"),
         probability |-> VarsomConvert(json, "AvalProbabilityId"),
         expositions |-> expositions,
         elevation |-> ElevationDeserialize(
                           [ExposedHeight1 |-> json.ExposedHeight1,
                            ExposedHeight2 |-> json.ExposedHeight2,
                            ExposedHeightComboTID |-> json.ExposedHeightFill]).val[1]]

\* the exposition_* keys of a problem series
ExpositionAttrs ==
    {"exposition_N", "exposition_NE", "exposition_E", "exposition_SE", "exposition_S",
     "exposition_SW", "exposition_W", "exposition_NW"}

\* the attrs of AvalancheForecast.to_problem_series
SeriesAttrs(with_priorities) ==
    (IF with_priorities THEN {"priority"} ELSE {})
    \cup {"size", "sensitivity", "distribution", "probability", "elevation_min",
          "elevation_max"}
    \cup ExpositionAttrs

\* the dictionary lookup of AvalancheProblem.to_series on the elevation format
ResolveElevation(e, roof) ==
    CASE e.format = ABOVE -> <<e.elev_max, roof>>
      [] e.format = BELOW -> <<0, e.elev_max>>
      [] e.format = SANDWICH -> <<0, roof>>
      [] e.format = MIDDLE -> <<e.elev_min, e.elev_max>>
      [] OTHER -> <<None, None>>

\* AvalancheProblem.to_series; 'Direction.N in self.expositions' of an
\* Expositions object, which has neither __contains__ nor __iter__, raises
\* TypeError
to_series(self, roof, with_priority) ==
    LET elev == ResolveElevation(self.elevation, roof)
        keys == SeriesAttrs(with_priority # None)
    IN  IF self.expositions # Nothing THEN Raise("TypeError", Nothing)
        ELSE Ok([a \in keys |->
                    CASE a = "priority" -> with_priority
                      [] a = "elevation_min" -> elev[1]
                      [] a = "elevation_max" -> elev[2]
                      [] a \in ExpositionAttrs -> None
                      [] OTHER -> self[a]])

RECURSIVE SeriesesFrom(_, _, _, _)
\* the loop of AvalancheForecast.to_problem_series from the i-th problem on,
\* serieses being the dictionary filled so far
SeriesesFrom(self, with_priorities, i, serieses) ==
    IF i > Len(self.problems) THEN Ok(serieses)
    ELSE LET problem == self.problems[i]
             priority == IF with_priorities THEN i ELSE None
             series == to_series(problem, REGION_ROOF(self.region), priority)
         IN  IF problem.type = None
             THEN SeriesesFrom(self, with_priorities, i + 1, serieses)
             ELSE IF series.err # "none" THEN Raise(series.err, Nothing)
             ELSE SeriesesFrom(self, with_priorities, i + 1,
                               Merge(serieses, [n \in {problem.type} |-> series.val]))

\* AvalancheForecast.to_problem_series: the series reindexed over every
\* problem type and attr
ToProblemSeries(self, with_priorities) ==
    LET serieses == SeriesesFrom(self, with_priorities, 1, <<>>)
    IN  IF serieses.err # "none" THEN serieses
        ELSE Ok([x \in ProblemTypes \X SeriesAttrs(with_priorities) |->
                    IF x[1] \in DOMAIN serieses.val /\ x[2] \in DOMAIN serieses.val[x[1]]
                    THEN serieses.val[x[1]][x[2]]
                    ELSE None])

\* the problems of the modelled forecasts as the server sends them: wind slab
\* and the old deep persistent slab (37), and a problem without a type, with
\* every ExposedHeightFill and with and without ValidExpositions ("11000000")
ProblemJsons ==
    {[AvalancheProblemTypeId |-> t, DestructiveSizeId |-> 2, AvalTriggerSimpleId |-> 10,
      AvalPropagationId |-> 1, AvalProbabilityId |-> 3,
      ExposedHeight1 |-> IF f \in {SANDWICH, MIDDLE} THEN 1200 ELSE 600,
      ExposedHeight2 |-> IF f \in {SANDWICH, MIDDLE} THEN 400 ELSE 0,
      ExposedHeightFill |-> f] : t \in {0, 10, 37}, f \in 0..4}
    \cup
    {[AvalancheProblemTypeId |-> 10, DestructiveSizeId |-> 2, AvalTriggerSimpleId |-> 10,
      AvalPropagationId |-> 1, AvalProbabilityId |-> 3,
      ExposedHeight1 |-> 600, ExposedHeight2 |-> 0, ExposedHeightFill |-> f,
      ValidExpositions |-> <<1, 1, 0, 0, 0, 0, 0, 0>>] : f \in {ABOVE, BELOW}}

\* the forecasts of the region TROMSO (roof 1000) with at most MaxProblems
\* problems
Forecasts ==
    UNION {{[region |-> TROMSO,
             problems |-> [i \in 1..n |-> VarsomProblemDeserialize(js[i])]] :
               js \in [1..n -> ProblemJsons]} : n \in 0..MaxProblems}

\* forecast.to_problem_series(with_priorities)
to_problem_series ==
    /\ fn = NoFn
    /\ \E self \in Forecasts, with_priorities \in BOOLEAN :
          fn' = [name |-> "to_problem_series", args |-> <<self, with_priorities>>,
                 out |-> ToProblemSeries(self, with_priorities)]
    /\ UNCHANGED <<dayVars, apsVars, regVars, recVars, snowVars, boxVars, resVars>>

\* the last problem of the list with the type t, 0 when there is none
LastOf(self, t) ==
    LET at == {i \in DOMAIN self.problems : self.problems[i].type = t}
    IN  IF at = {} THEN 0 ELSE CHOOSE i \in at : \A j \in at : j <= i

\* the elevation band the format rule gives a problem
RuleBand(e, roof) ==
    IF e.format = ABOVE THEN <<e.elev_max, roof>>
    ELSE IF e.format = BELOW THEN <<0, e.elev_max>>
    ELSE IF e.format = SANDWICH THEN <<0, roof>>
    ELSE <<e.elev_min, e.elev_max>>

\* the series of the call has the rows the problem list is to give
SeriesAsListed(self, with_priorities, series) ==
    \A t \in ProblemTypes :
        LET i == LastOf(self, t)
        IN  IF i = 0
            THEN \A a \in SeriesAttrs(with_priorities) : series[<<t, a>>] = None
            ELSE /\ self.problems[i].elevation.format \in {ABOVE, BELOW, SANDWICH, MIDDLE} =>
                       <<series[<<t, "elevation_min">>], series[<<t, "elevation_max">>]>>
                           = RuleBand(self.problems[i].elevation, 1000)
                 /\ with_priorities => series[<<t, "priority">>] = i

\* C22: to_problem_series returns a series in which a problem of the list
\* has elevation_min and elevation_max resolved from its elevation format
\* (ABOVE: threshold and region roof, BELOW: 0 and threshold, SANDWICH: 0 and
\* region roof, MIDDLE: elev_min and elev_max), every problem type absent
\* from the list has all attributes null, and priority is the 1-based
\* position in the list, present only when requested.
C22_ProblemSeries ==
    fn.name = "to_problem_series" =>
        /\ fn.out.err = "none"
        /\ DOMAIN fn.out.val = ProblemTypes \X SeriesAttrs(fn.args[2])
        /\ SeriesAsListed(fn.args[1], fn.args[2], fn.out.val)

----------------------------------------------------------------------------
(* The result of a search and its iterator. A registration of the server's *)
(* result set is written as its offset in that set.                        *)

\* NumberOfRecords of a page request of ResultIter.__next__
PageSize == 50

\* the largest step of a modelled slice
MaxStep == 3

\* how many registrations match the search on the modelled server
Matches == {0, 3, 51, 101}

\* failed >= 5 that gives up one failure later
GiveUp_OneMore(failed) == failed > 5

\* the test of ResultIter.__next__ that ends the retries of a page request
GiveUp(failed) == failed >= 5

\* no search made yet
NoResult ==
    [stage |-> "none", err |-> "none", N |-> 0, start |-> 0, stop |-> None, step |-> 1,
     sliced |-> FALSE, offset |-> 0, current |-> 0, cache |-> <<>>, statuses |-> <<>>,
     yielded |-> <<>>]

InitRes == result = NoResult

\* the slices of the modelled calls of Result.__getitem__
Slices ==
    {[start |-> a, stop |-> b, step |-> c] :
        a \in {None, 0, 1, 3}, b \in {None, 2, 60}, c \in {None} \cup (1..MaxStep)}

\* Result.__getitem__ with a slice: the start of the new Result
SliceStart(self, o) ==
    IF o.start # None /\ self.start # None /\ self.step # None
    THEN o.start * self.step + self.start
    ELSE IF o.start # None /\ self.start # None THEN o.start + self.start
    ELSE IF o.start # None THEN o.start ELSE self.start

\* Result.__getitem__ with a slice: the stop of the new Result
SliceStop(self, o) ==
    IF o.stop # None /\ self.start # None /\ self.stop # None /\ self.step # None
    THEN Min(o.stop * self.step + self.start, self.stop)
    ELSE IF o.stop # None /\ self.start # None /\ self.stop # None /\ o.step # None
    THEN Min(o.stop * o.step + self.start, self.stop)
    ELSE IF o.stop # None /\ self.start # None /\ self.stop # None
    THEN Min(o.stop + self.start, self.stop)
    ELSE IF o.stop # None /\ self.start # None THEN o.stop + self.start
    ELSE IF o.stop # None THEN o.stop
    ELSE self.stop

\* Result.__getitem__ with a slice, and Result.__init__ of what it returns
ResultGetItem(self, o) ==
    LET step == IF o.step # None THEN o.step * self.step ELSE self.step
    IN  IF o.start # None /\ o.start < 0 THEN Raise("TypeError", self)
        ELSE IF o.stop # None /\ o.start # None /\ o.stop < o.start
        THEN Raise("TypeError", self)
        ELSE IF step <= 0 THEN Raise("ValueError", self)
        ELSE Ok([self EXCEPT !.start = SliceStart(self, o), !.stop = SliceStop(self, o),
                             !.step = step, !.sliced = TRUE])

\* Result.__len__ when the server counts total_matches registrations
ResultLen(self, total_matches) ==
    LET upto == IF self.stop # None THEN Min(self.stop, total_matches) ELSE total_matches
        length == IF upto - self.start > 0 THEN upto - self.start ELSE 0
    IN  IF length # 0
        THEN (length \div self.step) + (IF length % self.step # 0 THEN 1 ELSE 0)
        ELSE 0

\* what the server returns for a page request at an offset
Page(offset, total_matches) ==
    [i \in 1..(IF Min(offset + PageSize, total_matches) > offset
               THEN Min(offset + PageSize, total_matches) - offset ELSE 0) |->
        offset + i - 1]

\* ResultIter.__next__ from the try statement on: the element at step - 1 of
\* the cache, StopIteration when there is none or current has reached stop
Deliver(it) ==
    IF Len(it.cache) < it.step THEN [it EXCEPT !.stage = "stopped"]
    ELSE LET elem == it.cache[it.step]
             below_max == IF it.stop # None THEN it.current < it.stop ELSE TRUE
             after == [it EXCEPT !.cache = SubSeq(it.cache, it.step + 1, Len(it.cache)),
                                 !.current = it.current + it.step]
         IN  IF below_max
             THEN [after EXCEPT !.stage = "iterating", !.yielded = Append(it.yielded, elem)]
             ELSE [after EXCEPT !.stage = "stopped"]

\* Connection.search returns Result(self, query) for a result set on the server
search ==
    /\ result.stage = "none"
    /\ \E total_matches \in Matches :
          result' = [NoResult EXCEPT !.stage = "result", !.N = total_matches]
    /\ UNCHANGED <<dayVars, apsVars, regVars, recVars, snowVars, fnVars, boxVars>>

\* result[start:stop:step] of the Result the search returned
getitem ==
    /\ result.stage = "result"
    /\ ~result.sliced
    /\ \E o \in Slices :
          LET out == ResultGetItem(result, o)
          IN  result' = IF out.err = "none" THEN out.val
                        ELSE [result EXCEPT !.stage = "raised", !.err = out.err]
    /\ UNCHANGED <<dayVars, apsVars, regVars, recVars, snowVars, fnVars, boxVars>>

\* ResultIter.__init__
ResultIterInit(parent) ==
    [parent EXCEPT !.stage = "iterating", !.offset = parent.start,
                   !.current = parent.start, !.cache = <<>>]

\* iter(result), once, before the first call of __next__
iter ==
    /\ result.stage = "result"
    /\ result' = ResultIterInit(result)
    /\ UNCHANGED <<dayVars, apsVars, regVars, recVars, snowVars, fnVars, boxVars>>

\* ResultIter.__next__ with records left in the cache
next ==
    /\ result.stage = "iterating"
    /\ result.cache # <<>>
    /\ result' = Deliver(result)
    /\ UNCHANGED <<dayVars, apsVars, regVars, recVars, snowVars, fnVars, boxVars>>

\* ResultIter.__next__ with an empty cache: one round of its while loop, the
\* page request and the answer of the server; after a 200 the rest of __next__
post ==
    /\ result.stage = "iterating"
    /\ result.cache = <<>>
    /\ \E status_code \in {200, 500} :
          LET sofar == IF result.statuses # <<>>
                          /\ result.statuses[Len(result.statuses)] = 200
                       THEN <<>> ELSE result.statuses
              failed == Len(sofar) + 1
              offset == IF sofar = <<>> THEN result.current ELSE result.offset
              asked == [result EXCEPT !.offset = offset,
                                      !.statuses = Append(sofar, status_code)]
          IN  result' =
                  IF status_code # 200
                  THEN IF GiveUp(failed)
                       THEN [asked EXCEPT !.stage = "raised", !.err = "ApiError"]
                       ELSE asked
                  ELSE Deliver([asked EXCEPT !.cache = Page(offset, result.N)])
    /\ UNCHANGED <<dayVars, apsVars, regVars, recVars, snowVars, fnVars, boxVars>>

\* C26: a page request of the iterator is sent at most 5 times: every answer
\* before the last one was not 200, and ApiError is raised exactly after the
\* fifth answer in a row that is not 200.
C26_AtMostFivePosts ==
    /\ Len(result.statuses) <= 5
    /\ \A i \in 1..(Len(result.statuses) - 1) : result.statuses[i] # 200
    /\ result.err = "ApiError" <=>
          /\ Len(result.statuses) = 5
          /\ \A i \in 1..5 : result.statuses[i] # 200

\* the request of the second page failed five times
C26_Witness ==
    /\ result.err = "ApiError"
    /\ result.offset = result.start + PageSize
    /\ Len(result.yielded) = PageSize

\* the offsets start, start + step, ... below min(stop, N)
ExpectedOffsets(self) ==
    [k \in 1..ResultLen(self, self.N) |-> self.start + (k - 1) * self.step]

\* C27: when the iteration of a Result ends, it has yielded len(result)
\* registrations, those at the offsets start, start + step, ... below
\* min(stop, N).
C27_YieldsEveryStep ==
    result.stage = "stopped" => result.yielded = ExpectedOffsets(result)

----------------------------------------------------------------------------
(* The specifications.                                                     *)

Init ==
    InitDay /\ InitAps /\ InitReg /\ InitRec /\ InitSnow /\ InitFn /\ InitBox /\ InitRes

NextDay == FetchFirst \/ FetchNext \/ AssimilateDays

\* the folding of single days
SpecDay == Init /\ [][NextDay]_vars

NextAps == DeserializeSelf \/ DeserializeOther \/ AssimilateAps

\* the merging of whole responses
SpecAps == Init /\ [][NextAps]_vars

NextSubmit ==
    \/ add_danger_sign \/ set_avalanche_obs \/ add_avalanche_activity \/ set_weather
    \/ set_snow_cover \/ add_compression_test \/ set_snow_profile \/ add_avalanche_problem
    \/ set_danger_assessment \/ set_incident \/ set_note \/ add_image
    \/ authenticate \/ Tick
    \/ submit \/ submit_authenticate \/ submit_upload \/ submit_post \/ submit_get

\* the building of a registration and its submission
SpecSubmit == Init /\ [][NextSubmit]_vars

NextRecord ==
    \/ DangerSign \/ AvalancheObs \/ AvalancheActivity \/ Weather \/ SnowCover
    \/ CompressionTest \/ SnowProfile \/ AvalancheProblem \/ DangerAssessment
    \/ Incident \/ Note \/ add_url \/ serialize \/ lose_keys \/ deserialize

\* the building of an observation record and its way over the wire and back
SpecRecord == Init /\ [][NextRecord]_vars

NextRegistration ==
    SnowRegistration \/ Hold \/ Attach \/ SerializeRegistration \/ DeserializeRegistration

\* the filling of a registration with records and its serialization
SpecRegistration == Init /\ [][NextRegistration]_vars

NextValues ==
    deserialize_enum \/ Elevation \/ serialize_expositions \/ deserialize_expositions
    \/ CompressionTestTaps \/ AssimilateLevels \/ to_problem_series

SpecValues == Init /\ [][NextValues]_vars

NextContainer == SetChild \/ Slice \/ Select \/ AssimilateBox

SpecContainer == Init /\ [][NextContainer]_vars

NextSearch == search \/ getitem \/ iter \/ next \/ post

\* a search, a slice of its result and the iteration of it
SpecSearch == Init /\ [][NextSearch]_vars

====
